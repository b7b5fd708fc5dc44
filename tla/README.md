# Verification of ttyforce

ttyforce is a text-mode installer and console for Town OS: it brings one
network interface online, partitions and formats disks, installs the base
system, and afterwards serves as the getty on tty1.  This directory holds TLA+
modules that model it, TLC configurations that check them on small instances,
and theorems about them that TLAPS proves for all instances.  Paths such as
`state_machine.rs` are relative to `src/src/` and its `engine/`, `tui/`,
`network/`, `disk/` directories.

## Inventory

| Component | State it keeps | Operations | Interacts with |
|---|---|---|---|
| Installer state machine (`engine/state_machine.rs`) | current screen, network state and retry counter, selected interface, SSID, RAID level, disk group, disk, users' key lists, timers, action manifest | one handler per (screen, input) in `process_input`; one bring-up step per `advance_connectivity`; `run_install`; `abort`/`cleanup` | calls the executor synchronously, is called by the event loop |
| Installer event loop (`tui/app.rs`, `tui/input.rs`) | `should_quit`, highlighted index, text buffers | `run_tui_loop`: draw, poll, at most one key, then a bring-up step if the screen *was* a polling one | feeds keys and ticks to the state machine |
| Executors (`engine/real_ops`, `engine/initrd_ops`) | none of their own: what they leave on the machine (networkd units, `wpa_supplicant`s, addresses, routes, partitions, mounts) | one function per `Operation` | the kernel, D-Bus, external tools |
| networkd units and leases (`engine/real_ops/network.rs`) | `80-ttyforce-<interface>.network` files, what networkd has read of them | DHCP, checks, `select_primary_interface`, `cleanup_network_config` | networkd, which gets leases on its own; earlier sessions and an install, whose files are still there |
| DHCP, routes and resolvers (`engine/initrd_ops/network.rs`) | `resolv.conf`, the routes and addresses of interfaces | `configure_dhcp`, `check_*`, `select_primary`, `cleanup_*`, `persist_*` | called through the executor |
| Disk grouping (`disk/group.rs`, `disk/info.rs`) | the group being merged, those left, those done | `from_disks`, `merge_similar_groups` | its result is the installer's list of disk groups |
| Getty console (`tui/getty.rs`, `tui/evdev_input.rs`) | blanking, menu and input modes, journal lines, scroll position, journal children | the event loop's refreshes, drains and key handlers | two input sources, journal processes, the installer (nested, in network-only mode), the Town OS API |
| SSH keys (`ssh.rs`) | the users' `authorized_keys` | fetch and append | called by the executor and the getty |
| Hardware detection (`detect/disk.rs`, `detect/network.rs`, `detect/mod.rs`) | boot disks, disks, links; the scan parsers' current block and list | UDisks2 and sysfs scans, networkd and sysfs links, scans by wpa_supplicant, iw and iwlist | the machine and the radio, which change meanwhile; its result is the installer's and the reconfigure flow's input, and the scans are also the executors' |
| Entry points (`main.rs`), screens (`tui/screens/`), console data (`getty/`), country table (`network/country.rs`) | none that outlives a call | | |

What is hard in this code:

* **Interleaving.** The installer is one thread, and still interleaved: the
  loop decides that it will tick *before* it reads the key, so that one bring-up
  step runs after the key that left the progress screen, and a tick may change
  the screen and the selected interface under the user.
* **State that is left over.** No handler resets all of the selections.  A
  retry counter, an SSID, a RAID level, queued keys, the Online state survive
  Back, changes of mode and re-selection of an interface.
* **Retries and deadlines.** Four checks share one counter; two waits have
  deadlines of their own that only count while the right screen is polled.
* **Partial failure.** Most results of the executor are recorded and not
  tested.  An abort reverts what the manifest recorded, not what happened.
  Files are written in several steps, and a write, a reload, an append may fail
  after the steps before it took effect.
* **A world that moves.**  Disks, links and access points are listed first and
  looked at one by one later; leases come and go while they are waited for; a
  machine restarts with the files of a session that no manifest remembers.

What makes each component correct: the installer writes to disks only after a
bring-up that was proven for the very interface it then persists, on a target
that was chosen consistently; nothing it leaves behind is unknown to its
manifest; the network-only flow never touches a disk; and no screen polls for
ever.  For the getty: no key is lost or acted on twice around blanking, no
destructive action without its own confirmation, bounded journals.  For DHCP:
what is reported as success has an address, and the resolvers written are ones
that answered.  For networkd: what a session wrote is gone after its abort, and
a primary interface is configured as one.  For detection: the medium the machine
runs from is not offered, nor a removable one beside a fixed disk; lists hold what
was found, once, in the promised order.  For grouping: groups partition the disks,
merge one transport only and mix only similar disks.  For SSH keys: no key is lost,
none is added twice, and Success means that the listed keys work.  Not all of this
is so: see Findings.

## Modules

| Module | Models | Code |
|---|---|---|
| `InstallerState` | constants, state, initial state, and what "selected", "connected" and "iterating" mean | fields of `InstallerStateMachine` and `App`, `ActionManifest` |
| `NetworkSetup` | keys of the mode, interface, wifi, WPS, progress and QR screens; every branch of a tick of the bring-up; the two deadlines | `engine/state_machine.rs`, `tui/app.rs` |
| `DiskSetup` | keys of the RAID, group, confirmation and SSH-key screens; `run_install` operation by operation, each failing or not | `engine/state_machine.rs` |
| `Installer` | abort, quit, final screen; the next-state relation, fairness, all properties | `engine/state_machine.rs`, `tui/app.rs`, `tui/input.rs` |
| `Provisioning` | abstract: what a session promises (prove an interface, then write disks once) | |
| `BringUp` | abstract: what a bring-up promises whatever executor it runs on (stage after stage, each with a budget of its own) | |
| `InstallerInv` | inductive strengthenings | |
| `InstallerProofs`, `InstallerRefinement` | proofs; the two refinements | |
| `MCInstaller` | disk groups for the runs | |
| `Connectivity`, `ConnectivityProofs` | one bring-up inside the initrd executor: `configure_dhcp` step by step, resolvers, the three checks | `engine/initrd_ops/network.rs`, bring-up part of `state_machine.rs` |
| `JournalPane` | a journal pane's buffer, scroll offset and child | `tui/getty.rs` |
| `Getty`, `GettyProofs` | the getty's loop, its two inputs, blanking, prompts | `tui/getty.rs`, `tui/evdev_input.rs` |
| `DiskGroups` | `from_disks` and the greedy merge, one comparison per step | `disk/group.rs`, `disk/info.rs` |
| `DiskTargets`, `DiskTargetsProofs`, `MCDiskTargets` | detecting the disks to offer, for the system and the initrd, then grouping them | `detect/disk.rs`, `detect/mod.rs` |
| `WifiScan` | the parsers of `iw` and `iwlist`, one line per step, and the sort | `detect/network.rs` |
| `WifiDetection`, `WifiProofs`, `MCWifi` | waiting for wifi, listing interfaces, the chain of scanners, for detection and both executors | `detect/mod.rs`, `detect/network.rs`, `engine/*/network.rs` |
| `Networkd`, `NetworkdProofs`, `MCNetworkd` | a session on the systemd executor: units, DHCP, checks, primary interface, cleanup, restart | `engine/real_ops/network.rs`, bring-up and cleanup of `state_machine.rs` |
| `SshKeys`, `SshKeysProofs`, `MCSshKeys` | importing keys write by write | `ssh.rs` |

`InstallerState` → `NetworkSetup`, `DiskSetup` → `Installer` → `InstallerInv` →
proofs is a chain of EXTENDS; `InstallerRefinement` instantiates
`Provisioning` and `BringUp` with the mappings in `Installer`.  `Connectivity` is
the detailed counterpart of the ticks that `NetworkSetup` treats as "passes or
fails", for the initrd, and `Networkd` for the systemd executor: all three
implement `BringUp`, which is what the installer's ticks assume of an executor.  `DiskTargets` EXTENDS
`DiskGroups`: its groups are constants of the installer's modules.
`WifiDetection` EXTENDS `WifiScan`: what it finds are their interfaces and
networks.

### How state and actions correspond to the code

*Installer.*  A variable has the name of the field it stands for; indices count
from 1 and 0 is `None`.  `phase` is the position in `run_tui_loop`: a key (or
the poll's timeout) is handled while it is `"poll"`; if the screen was a polling
one *before* the key, it becomes `"advance"` and the next step is a tick, on
whatever screen and state the key has left.  The executor is not a process: an
operation is a nondeterministic result inside the action that calls it, and what
it leaves on the machine are `artifacts`, `associated`, `up`, `formatted`,
`mounted`, `persisted`, `machine`.  `recorded` and `disk_recorded` are what
`cleanup()` reads out of the manifest, no more.  `evidence` is a history
variable: the checks each interface has passed since the selection or the
network was last changed.

*Connectivity.*  `step` is the program counter inside `configure_dhcp`; between
any two steps the network may change addresses and routes, and dhcpcd's hook may
rewrite `resolv.conf`.

*Getty.*  `at` is the position in the loop.  `typed` is the terminal's queue;
what a key is matters only when it is handled and is chosen there, and the marks
in the queue record which key was pressed in front of a dark screen with none
waiting.  `evdev` is
what evdev has not been asked for yet.

*Disk detection.*  `step` is the position in `detect_hardware`; between any two
steps a volume may be mounted and a hot-pluggable disk come or go.  A device is a
number, in the order of device names; a make and model is a key, in the order of
the map `exact`.  `current`, `rest` and `merged` are the variables of
`merge_similar_groups`; `at` is its index `i`, kept as the smallest key that is
still to be compared.  In a volume, `source` is the disk its entry in
`/proc/mounts` or `root=` names (0 for a nested path) and `on` the disks it
really lies on.  `root_form` is how `root=` names its volume: by a path, by a link
of `/dev/disk` that is there or that udev has yet to make, or in a form the code
does not know; a path `/dev/disk/by-*` is a nested one.  `Bus`, `RemovableFlag` and
`Backed` are what a disk is, `specs` what detection recorded of it.  `seen` and
`pulled` are history: the volumes that `/proc/mounts` or `root=` has named all
along, and the devices that were pulled out.

*Wifi.*  `captured` is the output of the tool: access points in any order;
`line` counts the lines of a block that the parser knows.  `current_*` and
`networks` are its variables.  `step` follows `detect_hardware` and, after it,
`SelectInterface`'s scans by an executor.  `bss` in a listed network says where
the name came from.

*networkd.*  A unit is the set of its settings; `{}` is both no file and an empty
one, which the code tells apart nowhere.  `units` are the files, `loaded` what
networkd last read.  `phase` is the position in the bring-up, or inside an
operation, where an abort cannot come but a restart can.  A key does not keep
the tick of its iteration from running (`tui/app.rs:202`): after an abort or a
quit one more step of the bring-up is taken, after a Back the interface is
enabled; `left` says where the session goes when that tick ends.  `recorded` are
the interfaces `cleanup()` finds in the manifest.  Text that only mentions the
section or `RouteMetric=`, in a comment or elsewhere, is a setting of its own
(`"#[DHCPv4]"`, `"#RouteMetric="`, `"other RouteMetric="`), since the code searches the
text of the unit and replaces lines of it.  `touched`, `late`, `kept`,
`selected` are history.

*SSH keys.*  The file is the sequence of its pieces: keys, cut keys, line ends,
other text.  `new_keys` are places in `listed`, which are written in order.  An
append is two writes, as `writeln!` makes.  Nothing is synced: after a crash any
prefix of what was appended since the last start is on disk, a cut key at its end
perhaps, and that may be less than an import reported (`durable`, `OnDisk`).
`before` (the file when the import or the machine started) and `unread` (this import
could not read it) are history.

### What is abstracted

* The highlighted line of a list: any line may be the one Enter is pressed on.
* `cleanup`'s operations on supplicants and networkd succeed; the unmount may
  fail.  `RefreshWifiScan` changes nothing but the list of networks, which any
  member of `Ssids` may be on.
* Key events no screen can produce are not actions: `InitiateWps`,
  `SelectInstallMode`'s quit arm, `connect_wifi_qr` and `auto_detect_network` are
  unreachable from `map_key`.  A machine has at least one disk, because `main`
  exits without.
* In `Connectivity`, lists of nameservers are sets (every user of them tries
  all), and probes are not bound to an interface.  An interface that has an
  address already skips `configure_dhcp`, and with it the resolver test, as the
  code does.
* In `Getty`, `watched` says whether evdev reads the keyboard that feeds the
  terminal; one such keyboard among several is not modelled.  Panes count lines
  and do not hold them.  Mock mode, panel rendering, the kernel log and the
  refreshes of statistics are left out.  The clock may take a step at any time.
* In `DiskTargets`, UDisks2 leaves at most one present device without a drive, the
  links of `/dev/disk` are those of the volume `root=` names, and the scan of sysfs is one step (directories that vanish within it are those
  that were unplugged before).  The label of a mixed group is left out.
* In `WifiScan`, a block prints the lines of its access point in the order of the
  tools, and frequencies are left out.  In `WifiDetection` the world changes only
  where the program may look at it.
* In `Networkd`, a unit says nothing but whether there is DHCP and which metric is
  set; with an install's `20-<interface>.network` what networkd has in force is that
  unit alone.  Wifi association is left out; a check of the internet passes or
  not.  Which interface is shut down is any of those the session enabled.
* In `SshKeys`, other text contains no key, GitHub lists a key once, and appended
  data reaches the disk in its order.

## Runs

| Run | Instance | What it shows |
|---|---|---|
| `reconfigure` | network-only; one ethernet interface without link, one wifi interface; a protected and an open network; `MAX_RETRIES` 2, the other limits 1 | the wifi screens always have their interface and network; no disk is touched; refinement of `BringUp`: every stage has its whole budget; progress and WPS screens end (under fairness) |
| `eth_and_wifi` | the whole installer; one ethernet, one wifi interface; limits 1 | disk screens only when online; Online is earned by the interface it names; effects are in the manifest; refinement of `Provisioning`: only the proven configuration is persisted, the disks are written once |
| `ssh_install` | ethernet; groups of one, two and three disks; two users | types; what is confirmed is what will be installed; keys asked for existing users and not imported twice |
| `connectivity` | one public, one LAN nameserver, the gateway; 2 attempts everywhere | the repair finds a resolver that answers; refinement of `BringUp`; the bring-up ends (under fairness) |
| `getty` | buffers of 3 lines, 2 users, 2 keys waiting, GRUB wipe | types; prompts one at a time; panes never empty or moving; the wake key is inert; destructive actions are deliberate; wakes up and goes dark (under fairness) |
| `disk_targets` | three SATA disks whose sizes form a chain, a USB disk of one of their models, an SD card without model, a block device of another kind without a `device` directory; the boot stick, a btrfs on two disks and a mapper volume | a disk that `/proc/mounts` or a `root=` that resolves goes on naming is not offered; beside a fixed disk no removable or USB one is, but for the cases named in `LastResortOnly`; the groups partition the disks, merge one transport and similar disks only, and cannot be merged further |
| `wifi_scan` | four access points: one hidden, one open, two equally strong; a load line before and after the security; a virtual link, one with a wireless directory and one of type 801; 2 polls | lists are true, free of duplicates and sorted; ethernet first; detection ends (under fairness) |
| `networkd` | two interfaces, one with an install's unit; own units absent or with a foreign metric; address wait 3, route wait 1, 2 retries, one restart | an abort cleans up; networkd has read what was written for the primary interface, no older metric is left; refinement of `BringUp`; the bring-up ends (under fairness) |
| `ssh_keys` | three keys, three imports, two crashes; files empty, whole, unended, commented, cut, with a key twice | imports are sound between crashes; a key added by an import that could read the file is there nowhere else |
| `v_*` | | one disagreement each: see Findings |

Bounds, and why they are enough.  Two interfaces are what it takes for one to be
left for another; two networks for the wrong one to be joined; one more than
one retry for a counter to be seen both reset and carried over, and one retry
where only the outcome matters.  Groups of one, two and three disks separate the
RAID levels: each of the two btrfs levels has a group too small for it and one
that is not.
Two users are a first and a last.  `MaxNames` and `MAX_TYPED` bound queues in
their guards, and `LINE_BOUND` the lines that failed starts of a journalctl add;
that these may go past the limit is left to the theorems, which hold for every
`LINE_BOUND`.  For most of the safety properties the theorems below replace the
bounds altogether.

For the newer runs: with three sizes in a chain, similarity is not transitive,
which is what makes a greedy merge delicate, and six devices are three more than
the chain: one to mix transports within a model, one removable, one that only
UDisks2 lists.  A link called `wl*` is a wifi one wherever it is looked at, so that
the runs need none.  Four access points put a hidden one, an open one and two of
equal strength next to each other in every order.  `networkd` waits longer for an
address than it retries or waits for a route, so that a count carried over is
seen; one session is enough because what an earlier one leaves in the units this
one writes too, and finds when it comes back to an interface after a Back.  In
`ssh_keys` a failed import, one that completes it and one that repeats it make
three.

`CHECK_DEADLOCK FALSE` is in every configuration because every system here
stops: the installer's loop ends on `should_quit`, a bring-up is over when it is
Online or has failed, a detection or an import ends, and the getty ends when it exits, execs login, or the
machine goes down.

Fairness.  `Installer`: weak fairness of the loop's iteration without a key
(`PollTimeout \/ advance_connectivity`), since the loop polls with a timeout and
calls nothing that blocks for ever, and of the two deadlines, since time passes.
The user, the network and every operation's result remain free.
`Connectivity`: weak fairness of the tick, which is synchronous; none of the
network.  `Getty`: weak fairness of the loop, whose poll lasts a second at most,
and of the clock; none of the keyboard.  `GoesDark` is therefore stated for a
console that is left alone from some moment on.  `WifiDetection` and `Networkd`:
weak fairness of the program, which never blocks (its sleeps and commands end);
none of the user, networkd, the radio, the kernel or a restart.  `DiskTargets`
and `SshKeys` state no liveness and assume no fairness.

## Findings

Shown by a run, each a violated property:

* `v_old_filesystem`: a failed mkfs is not noticed; what is mounted and reported
  as installed is the old filesystem.
* `v_curl`: a bring-up ends Online with a `resolv.conf` in which no server
  answers, because the repair ran on an IPv6 route and the IPv4 gateway, the one
  server that answers, was not known yet.
* `v_running_system`: a disk of the running system is offered as a target: the one
  that `root=` names when nothing of it is mounted and udev has not made the link
  that resolves it (`detect/disk.rs:53`) or the form is unknown (64), one that is
  mounted through `/dev/mapper` or named with a further slash (92), and a further
  device of a btrfs.  The run shows one of these; `BootSpared` says what holds.

Seen in the code while modelling, and part of the models without a run of their
own:

* Disks of one make and model are one group whatever their transports
  (`disk/group.rs:24`), so that a SATA disk and a USB disk of one model, or without
  a model, can be put into one RAID.  `disk/info.rs:47` says "only disks with the
  same transport can be RAID'd together", `disk/group.rs:80` "The transport type
  shared by all disks in this group." and line 104 of the repository's README
  "Disks are automatically grouped by transport type (SATA, NVMe, etc.)"; the
  comment at `disk/group.rs:17` says what the code does.  `MixedOnlyInModel` states
  that merging adds nothing to it.
* A USB disk that UDisks2 lists without a Drive object is recorded as "sata"
  (`detect/disk.rs:314`), and so is offered beside fixed disks, which the
  comments at lines 159 and 166 exclude: the exception of `LastResortOnly`.
* An import that cannot read `authorized_keys`, or finds it is not UTF-8, takes it
  for empty (`ssh.rs:77`) and appends keys that it holds; line 58 says "Appends to
  any existing keys and deduplicates.": `AtMostOnce` is stated of imports that could
  read the file.
* `merge_primary_interface_config` asks whether the unit mentions `RouteMetric=`
  (`real_ops/network.rs:387`) and then replaces only lines that start with it (391):
  where such a unit has a `[DHCPv4]` section and the setting is commented out or
  indented, no metric of 100 is written and selecting the primary interface succeeds all the same: the exception of
  `PrimaryIsConfigured`.
* The entry "Power Off" of the final screen aborts (`tui/input.rs:47`; the README,
  line 122, says it shuts the system down): `PowerOffEntry`.
* The tick that follows the abort key in the same iteration can leave the final
  screen again (`tui/app.rs:207`, `state_machine.rs:1651`).
* An abort leaves the `wpa_supplicant` that WPS started (`state_machine.rs:1318`).
* After WPS the QR screen encodes the network picked from the list, not the one
  joined (`state_machine.rs:1436`).
* Interfaces enabled from the interface list are not shut down when another goes
  online (`state_machine.rs:868`).
* A screen lit by the terminal also drops the key after the wake key
  (`tui/getty.rs:312`).
* An index highlighted in a list may point past the end of the list that a tick
  put in its place (`tui/app.rs:1164`); Enter is then ignored.
* 'q' ends the app without cleanup (`tui/app.rs:1156`): `Quit`.
* After an abort during the bring-up, the tick still configures DHCP.
* The QR screen can be asked for on an ethernet interface
  (`state_machine.rs:429`), and the mode question appears in the reconfigure flow
  on Back (`state_machine.rs:305`).
* A journalctl that cannot be started adds lines past the buffer's cap
  (`tui/getty.rs:633`), and one that ends is not restarted.
* A wipe whose reboot fails leaves GRUB armed: the next boot of any kind wipes.
* Keys typed ahead while a key import runs are handled by whatever mode is open
  when it ends; an `R` or `p` among them then acts on the main screen.

* Disks: the initrd's detection does not pass `prefer_fixed_disks`, which its
  comment calls the chokepoint (`detect/disk.rs:166`).  An SD card that leaves between
  the listing and the reading of its flag counts as fixed.
* Wifi: the line "BSS Load:" starts like a header, so that a network whose RSN
  line follows it is listed as open (`detect/network.rs:450`).  The check of a BSS
  object asks only whether the properties can be read, so that an open network is
  listed as WPA2 and one that expired as open (399, 409).  "SAE" stands on a line
  of its own, so that WPA3 is never detected.
* networkd: two interfaces selected one after the other keep the metric of a
  primary one; on an installed system `20-<interface>.network` comes first and
  hides the program's unit.  An abort also removes a unit that an earlier session
  left for the same interface.  `select_primary_interface` reconfigures a link
  that may lose its lease by that, just as Online is shown.  `check_ip_address`
  asks for IPv4 only.  A network added to wpa_supplicant by D-Bus is not removed by
  cleanup, and its `pkill` pattern for `wlan1` matches `wlan10`.
* SSH keys: a file whose last line has no end gets the first new key on that line,
  which breaks both; `SoundImports` is stated for files of whole lines.  A key
  that was cut by a full disk is in the way of the next one in the same manner.  A
  key that only a comment contains counts as present.

## Proofs

TLAPS checks the following for every value of the constants that satisfies the
named assumptions (`InterfaceAssumption`, `WifiAssumption`, `DiskAssumption`,
`SessionAssumption`, `RetryAssumption`; `AttemptAssumption`, `LimitAssumption`;
`GettyAssumption`, `PaneAssumption`; `GroupAssumption`, `DeviceAssumption`;
`RadioAssumption`, `LinkAssumption`; `NetworkdAssumption`; `SshAssumption`), which
say no more than that indices are in range, limits are positive, lists are finite
and keys are told from other text.

* **Types** (`TypeCorrect`): one lemma per action.  It is the ground for all that
  follows: the SMT solver needs the types of records and functions.
* **`DisksNeedNetwork`, `SelectionSound`**: neither property is inductive alone:
  a Back key returns to screens whose selections were made earlier.  `DiskFlow`
  adds that Online implies an interface, and that the group screen implies a RAID
  level.
* **`KeysSound`**: `KeysQueued` says where keys may be queued at all, which is
  what makes "none on Confirm" survive `run_install` and Back.
* **`OnlineEarned`, `PersistsOnlyProven`**: `EvidenceSoFar` says what each state of
  the bring-up has shown so far; the interesting steps are those that change the
  selected interface while a state is left over.
* **`WholeBudget`**: `BudgetLeft` says that a check still retrying has failures
  left, so the limit is met exactly and never jumped over.
* **`WifiScreensSound`**: `WifiFlow` pins the two states whose tick changes screen
  or interface (`WaitingForCarrier`, `WpsWaiting`) to the screens where that is
  harmless, the final screen after an abort included.
* **`EffectsOnRecord`, `ReconfigureSparesDisks`**: inductive with types alone.
* **`InstallerProvisions`**: the refinement.  `AfterInstall` strengthens the
  simulation relation: after the disks were written nothing leads back into the
  bring-up.  Keys map to `StartOver`, `Write`, `Save`, `End` or a stutter, ticks
  to `Show`, `Prove` or a stutter.
* **`InstallerBringsUp`, `InitrdBringsUp`, `SystemdBringsUp`**: the installer's
  ticks, and the bring-ups of both executors, implement `BringUp`.  The mapping
  (`Stage`) folds into the stage "address" all that `configure_dhcp` does, and into
  "primary" what `select_primary_interface` does, so that every step inside an
  operation is a stutter and its return is `Pass`, `GiveUp` or, after an abort in
  the tick, a stutter.  The executors need to know what runs inside what:
  `Inside` (the steps of `configure_dhcp` occur only while DHCP is configured) and
  `StageKnown` (which operation a phase belongs to, and that the first stage starts
  with no failures).  The installer needs its types only.
* **`ProgressSettles`, `BringUpBounded`, `TicksBounded`, `DetectionBounded`**: the
  part of the liveness properties that does not need fairness.  `StepsLeft` is a
  number below `Longest` that every step of the program takes from, that no step of
  the environment adds to, and that is zero only when the wait is over.  It counts
  the attempts that are left of the stage under way and all those of the stages to
  come, so it is an invariant that they are not overdrawn (`BudgetLeft`,
  `AttemptsLeft`; `ListsAreShort` for the scans, whose lists are as long as there are
  access points).  For the installer `ProgressFlow` says which states the progress
  screen is shown in, so that no tick there is without effect unless a carrier is
  waited for, which is what `CarrierDeadline` ends.
* **`ImportsSound`, `KeysAtMostOnce`**: for any number of imports, failures and
  crashes.  `ImportInv` says that the file extends the one the import found
  (`Extends`); that it consists of whole lines except while a line's end is still to
  be written (`LinesWhole`), if it did so at first; and that each listed key is in the
  file or still to be written and, if the import could read the file, never both
  (`ListedAccounted`).  What a crash leaves on disk is the file the next import
  finds, so nothing of an earlier one has to be known of it.
* **`ConnectivityTypes`, `RepairSound`**: the second needs of the first only that
  what was read as nameservers are nameservers.
* **`GettyTypes`, `WindowsShowLines`, `AppendsKeepView`, `PromptsNest`,
  `WakeKeysInert`, `ActsDeliberately`**: the panes rest on an invariant `PanesOK`
  (the offset is below the number of lines), with a lemma per operation of
  `JournalPane`; the wake key on `WakeMarked` (only the first key in the queue can
  be the wake key; until it is read, the screen is dark or the key is marked for
  discarding; and between polls, a dark screen with keys waiting means that evdev,
  if it watches the keyboard, holds the key too, so that blanking cannot race it).

* **`EveryDiskOnce`, `MixedWithinModel`, `MixedSimilar`, `NothingLeft`**: the
  grouping, for any number of disks.  The last is the delicate one: a group that
  was passed over was compared with what `current` was then.  `Compared` lists the
  comparisons that are settled (each result with every group left, `current` with
  the results and with the groups before the index), and the lemma `StaysApart`
  says why growing keeps them settled: similarity asks for all pairs.  For
  `MixedOnlyInModel` each disk is attached like the first of its model, and the first
  disks of a group like each other.
* **`BootMediumSpared`, `LastResortLast`**: the first carries the set of boot
  disks through both scans and the fallback between them; the second what each
  scan must have found of the fixed disks.
* **`EachListedOnce`, `HeardIsListed`**: an invariant of the parser relates its
  three variables to the block and the line it has reached, hidden blocks and
  split ones included.  **`StrongestListedFirst`, `InterfacesInOrder`** rest on what
  a sorted permutation is.
* **`AbortsClean`**: every unit the session opened is recorded, about to be, or
  gone (`Recorded`), wherever inside an operation it fails; for the tick after the
  abort it says that nothing but the unit of the selected interface is written.
  **`PrimaryConfigured`**: `Selecting` follows the content from the merge to the
  file and to networkd.

`ConnectivityTypes`, `DetectionTypes`, `WifiTypes` and `NetworkdTypes` are proved and
have no run of their own; `WholeBudget` and `PersistsOnlyProven` state in the
installer's own terms what the runs check as part of `BringsUp` and `Provisions`.
`ProgressFlow` and the bound and the decrease of the installer's `StepsLeft` were
checked by TLC on the instances of the three installer runs before they were
proved.

Every invariant and every safety property of the runs is proved.  Only
model-checked: the liveness properties `BringUpSettles`, `WpsEnds`, `BringUpEnds`,
`DetectionEnds`, `WakesUp` and `GoesDark`, and the violations.  Liveness is out of the
prover's reach because it speaks of ENABLED: what the ranking theorems leave to TLC
is that in a state where something is left, the program can take a step.  For the
same reason nothing is proved about whether a sorted order exists, which
`EndOfOutput`, `EndOfBus` and `DetectInterfaces` pick; TLC would find a deadlock of
`DetectionEnds` there.

## Not modelled, and the plan

Done so far, in this order: installer, its refinement, connectivity, getty, disk
grouping and detection, wifi scanning and detection, the systemd executor's
network, SSH keys.  Left, most important first:

1. The order of resolvers: `nameserver_candidates` and its users as operators on
   sequences, where `Connectivity` has sets.
2. `select_primary`, `cleanup_*` and `persist_*` of the initrd executor: the
   routes and files of interfaces that lost, and what remains after a reboot.
3. Wifi authentication of both executors: D-Bus, the fallback to a
   `wpa_supplicant` of its own, and their cleanup.
4. The getty with the installer as a module instead of as a nondeterministic
   result.
5. Theorems: a ranking for the getty's blanking (`GoesDark`), and that the getty's
   loop implements an abstract console of a dark and a lit screen.

Not planned: drawing, the console's statistics and API panels (parsers of input
that is thrown away), the mock and test executors, argument parsing and the
country table, which keep no state and have nothing to interleave.
