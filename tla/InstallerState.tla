--------------------------- MODULE InstallerState ---------------------------
(***************************************************************************)
(* The state of the installer: the fields of InstallerStateMachine and of  *)
(* App that decide what happens next, the part of the action manifest that *)
(* cleanup() reads back, and the part of the machine being installed that  *)
(* the executor's operations leave changed.                                *)
(*                                                                         *)
(* Interfaces, disks and disk groups are named by their index in the       *)
(* source's vectors, counted from 1, so that "the first one" keeps its     *)
(* meaning; 0 stands for None.                                             *)
(***************************************************************************)
EXTENDS Naturals, Sequences

CONSTANTS
  NumInterfaces,    \* interfaces.len()
  WifiIfaces,       \* the interfaces whose kind is InterfaceKind::Wifi
  LinkedAtBoot,     \* ethernet that detection saw with link and carrier
  Ssids,            \* networks a scan may list
  OpenSsids,        \* those of them without security
  NoSsid,           \* None for an SSID
  NumDisks,         \* all_disks.len()
  GroupSize,        \* disk_count() of every disk group
  GroupBytes,       \* total_bytes() of every disk group
  GroupFirst,       \* position in all_disks of every group's first disk
  NumUsers,         \* ssh_users.len()
  MaxNames,         \* bound: GitHub names queued for one user
  NetworkOnly,      \* network_only: the getty's reconfigure flow
  LINK_MAX_RETRIES, MAX_RETRIES, DNS_MAX_RETRIES

None       == 0
Ifaces     == 1..NumInterfaces
Ethernet   == Ifaces \ WifiIfaces
Groups     == 1..Len(GroupSize)
Disks      == 1..NumDisks
Users      == 1..NumUsers

ASSUME InterfaceAssumption ==
  /\ NumInterfaces \in Nat
  /\ WifiIfaces \subseteq Ifaces
  /\ LinkedAtBoot \subseteq Ethernet

ASSUME WifiAssumption ==
  /\ OpenSsids \subseteq Ssids
  /\ NoSsid \notin Ssids

ASSUME DiskAssumption ==
  /\ NumDisks \in Nat
  /\ GroupSize \in Seq(Nat \ {0})
  /\ GroupBytes \in [Groups -> Nat]
  /\ GroupFirst \in [Groups -> Disks]

ASSUME SessionAssumption ==
  /\ NumUsers \in Nat
  /\ MaxNames \in Nat
  /\ NetworkOnly \in BOOLEAN

ASSUME RetryAssumption ==
  /\ LINK_MAX_RETRIES \in Nat \ {0}
  /\ MAX_RETRIES \in Nat \ {0}
  /\ DNS_MAX_RETRIES \in Nat \ {0}

ScreenId ==
  {"InstallModeSelect", "NetworkConfig", "WifiSelect", "WifiCountry",
   "WifiPassword", "WpsPrompt", "WpsWaiting", "NetworkProgress",
   "WifiQrDisplay", "DiskGroupSelect", "RaidConfig", "Confirm",
   "SshKeyImport", "InstallProgress", "Reboot"}

\* Authenticating is declared by the source and never assigned.
NetworkState ==
  {"Offline", "WaitingForCarrier", "DeviceEnabled", "Scanning",
   "NetworkSelected", "WpsWaiting", "Connected", "DhcpConfiguring",
   "IpAssigned", "CheckingRouter", "CheckingInternet", "CheckingDns",
   "Online", "Error"}

InstallerFinalState == {"Installed", "Aborted", "Rebooted", "Exited", "Error"}
RaidConfig  == {"Single", "BtrfsRaid1", "BtrfsRaid5"}
InstallMode == {"Easy", "Advanced"}
Timer       == {"none", "running", "elapsed"}
Check       == {"router", "internet", "dns"}

VARIABLES
  screen,                 \* current_screen
  install_mode,
  phase,                  \* run_tui_loop: polling for a key, or about to advance
  should_quit,
  network_state, connectivity_retries,
  selected_interface, selected_ssid,
  wifi_country,           \* wifi_country.is_some()
  wps_start_time, carrier_wait_start, carrier_candidates,
  enabled, has_carrier,   \* interfaces with that flag set
  selected_raid, selected_disk_group, selected_disk,
  ssh_current_user_idx,
  ssh_keys,               \* names queued for each user
  recorded,               \* what cleanup() collects from the manifest
  disk_recorded,          \* needs_unmount, as cleanup() computes it
  final_state,
  \* The machine being set up, as the executor leaves it.
  artifacts,              \* networkd/dhcpcd configuration and wpa_supplicants left behind
  associated,             \* network each wifi interface is associated with
  up,                     \* interfaces told to come up and not to go down since
  persisted,              \* interface whose configuration was persisted
  formatted, mounted,     \* the target volume
  machine,
  evidence                \* history: checks passed since bring-up last restarted

appVars      == <<screen, install_mode, should_quit>>
bringUpVars  == <<network_state, connectivity_retries, evidence>>
choiceVars   == <<selected_interface, selected_ssid, wifi_country>>
timerVars    == <<wps_start_time, carrier_wait_start, carrier_candidates>>
linkVars     == <<enabled, has_carrier, up>>
wpaVars      == <<recorded, artifacts, associated>>
networkVars  == <<bringUpVars, choiceVars, timerVars, linkVars, wpaVars>>

diskVars     == <<selected_raid, selected_disk_group, selected_disk>>
sshVars      == <<ssh_current_user_idx, ssh_keys>>
volumeVars   == <<disk_recorded, formatted, mounted>>
installVars  == <<diskVars, sshVars, volumeVars, persisted, machine, final_state>>

vars == <<phase, appVars, networkVars, installVars>>

TypeOK ==
  /\ screen \in ScreenId
  /\ install_mode \in InstallMode
  /\ phase \in {"poll", "advance"}
  /\ should_quit \in BOOLEAN
  /\ network_state \in NetworkState
  /\ connectivity_retries \in Nat
  /\ selected_interface \in Ifaces \cup {None}
  /\ selected_ssid \in Ssids \cup {NoSsid}
  /\ wifi_country \in BOOLEAN
  /\ wps_start_time \in Timer
  /\ carrier_wait_start \in Timer
  /\ carrier_candidates \in SUBSET Ethernet
  /\ enabled \in SUBSET Ifaces
  /\ has_carrier \in SUBSET Ethernet
  /\ selected_raid \in RaidConfig \cup {"None"}
  /\ selected_disk_group \in Groups \cup {None}
  /\ selected_disk \in Disks \cup {None}
  /\ ssh_current_user_idx \in Nat
  /\ ssh_keys \in [Users -> 0..MaxNames]
  /\ recorded \in SUBSET ({"networkd", "wpa"} \X Ifaces)
  /\ disk_recorded \in BOOLEAN
  /\ final_state \in InstallerFinalState
  /\ artifacts \in SUBSET ({"networkd", "wpa", "wps"} \X Ifaces)
  /\ associated \in [WifiIfaces -> Ssids \cup {NoSsid}]
  /\ up \in SUBSET Ifaces
  /\ persisted \in Ifaces \cup {None}
  /\ formatted \in BOOLEAN
  /\ mounted \in BOOLEAN
  /\ machine \in {"running", "rebooting", "off"}
  /\ evidence \in SUBSET (Ifaces \X Check)

\* The installer starts on the mode question (new_with_mode_select), the
\* getty's reconfigure flow on the interface list (new).
Init ==
  /\ screen = IF NetworkOnly THEN "NetworkConfig" ELSE "InstallModeSelect"
  /\ install_mode = "Advanced"
  /\ phase = "poll"
  /\ should_quit = FALSE
  /\ network_state = "Offline"
  /\ connectivity_retries = 0
  /\ selected_interface = None
  /\ selected_ssid = NoSsid
  /\ wifi_country = FALSE
  /\ wps_start_time = "none"
  /\ carrier_wait_start = "none"
  /\ carrier_candidates = {}
  /\ enabled = {}
  /\ has_carrier = LinkedAtBoot
  /\ selected_raid = "None"
  /\ selected_disk_group = None
  /\ selected_disk = None
  /\ ssh_current_user_idx = 0
  /\ ssh_keys = [u \in Users |-> 0]
  /\ recorded = {}
  /\ disk_recorded = FALSE
  /\ final_state = "Aborted"
  /\ artifacts = {}
  /\ associated = [i \in WifiIfaces |-> NoSsid]
  /\ up = {}
  /\ persisted = None
  /\ formatted = FALSE
  /\ mounted = FALSE
  /\ machine = "running"
  /\ evidence = {}

----------------------------------------------------------------------------
(***************************************************************************)
(* run_tui_loop.  An iteration first decides whether the screen is one     *)
(* that polls (on_progress), then handles at most one key, then, if the    *)
(* screen WAS one that polls, advances the bring-up by one step, whatever  *)
(* the key did.                                                            *)
(***************************************************************************)
\* Mutant: the WPS screen is not polled.
on_progress_only == screen = "NetworkProgress"

on_progress == screen \in {"NetworkProgress", "WpsWaiting"}

Iterating ==
  /\ phase = "poll"
  /\ ~should_quit
  /\ phase' = IF on_progress THEN "advance" ELSE "poll"

\* A key read while screen s is shown.
Key(s) == Iterating /\ screen = s

\* The screen a key leads to; in network-only mode the last one ends the app.
MoveTo(s) ==
  /\ screen' = s
  /\ should_quit' = (NetworkOnly /\ s = "Reboot")

\* NetworkState::is_terminal; also a mutant of is_online.
is_terminal == network_state \in {"Online", "Error"}
is_online   == network_state = "Online"

\* Mutant: an operation runs before, and instead of, being recorded.
record_nothing(kind) == UNCHANGED recorded

\* action_manifest.record, for an operation on the selected interface that
\* cleanup() looks for.
record(kind) == recorded' = recorded \cup {<<kind, selected_interface>>}

\* advance_connectivity, called because the last poll was on_progress.
Tick == phase = "advance" /\ phase' = "poll"

\* A poll that times out, or reads a key that changes nothing.
PollTimeout ==
  /\ Iterating
  /\ on_progress
  /\ UNCHANGED <<appVars, networkVars, installVars>>
=============================================================================
