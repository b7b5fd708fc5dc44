----------------------------- MODULE InstallerInv -----------------------------
(***************************************************************************)
(* The inductive strengthenings of the properties of Installer.            *)
(***************************************************************************)
EXTENDS Installer

\* Being online always means some interface is, and a RAID level is set
\* before a disk is asked for: with these the disk screens' invariants are
\* inductive.
DiskFlow ==
  /\ DiskScreensOnline
  /\ network_state = "Online" => selected_interface # None
  /\ screen = "DiskGroupSelect" => selected_raid \in RaidConfig
  /\ SelectionConsistent

\* Keys are queued only on the key screen, until the install that ends the
\* app has consumed them.
KeysQueued ==
  (\E u \in Users : ssh_keys[u] # 0) =>
    \/ screen = "SshKeyImport"
    \/ screen = "InstallProgress" /\ should_quit /\ phase = "poll"

SshFlow ==
  /\ SshKeysAskedFor
  /\ KeysQueued

\* What has been shown of the selected interface when a state is reached.
Shown == [CheckingRouter   |-> {"router"},
          CheckingInternet |-> {"router", "internet"},
          CheckingDns      |-> {"router", "internet", "dns"},
          Online           |-> {"router", "internet", "dns"}]

EvidenceSoFar ==
  network_state \in DOMAIN Shown =>
    {selected_interface} \X Shown[network_state] \subseteq evidence

\* A check that is still retrying has failures left.
BudgetLeft ==
  network_state \in Checking => connectivity_retries < Budget[network_state]

\* The states whose tick changes the screen or the interface occur only
\* where that is harmless.
WifiFlow ==
  /\ WifiScreensReady
  /\ network_state = "WaitingForCarrier" =>
       screen \in {"NetworkProgress", "Reboot"}
  /\ network_state = "WpsWaiting" =>
       /\ screen \in {"WpsWaiting", "Reboot"}
       /\ selected_interface \in WifiIfaces

\* Once the disks were written only the last two screens are left, and what
\* was proven before stays proven.
AfterInstall ==
  disk_recorded =>
    screen \in {"InstallProgress", "Reboot"} /\ network_state = "Online"

\* On the progress screen a bring-up is under way on some interface, or has
\* ended, or a carrier is waited for; the QR code is shown of one that is online.
ProgressFlow ==
  /\ screen = "NetworkProgress" =>
       \/ network_state = "WaitingForCarrier"
       \/ /\ network_state \notin {"Scanning", "NetworkSelected", "WpsWaiting"}
          /\ selected_interface # None
  /\ screen = "WifiQrDisplay" => network_state = "Online"

\* The ticks, and the deadline, that the progress screen may still see.
AfterDhcp == 2 * MAX_RETRIES + DNS_MAX_RETRIES + 1

StepsLeft ==
  IF screen # "NetworkProgress" \/ is_terminal THEN 0
  ELSE [CheckingDns       |-> 1,
        CheckingInternet  |-> DNS_MAX_RETRIES + 1 - connectivity_retries,
        CheckingRouter    |-> DNS_MAX_RETRIES + MAX_RETRIES + 1 - connectivity_retries,
        IpAssigned        |-> AfterDhcp - connectivity_retries,
        DhcpConfiguring   |-> AfterDhcp + 1,
        Connected         |-> AfterDhcp + 2,
        DeviceEnabled     |-> AfterDhcp + 1 + LINK_MAX_RETRIES - connectivity_retries,
        Offline           |-> AfterDhcp + 2 + LINK_MAX_RETRIES,
        WaitingForCarrier |-> AfterDhcp + IF carrier_wait_start = "running" THEN 3 ELSE 2
       ][network_state]

Longest == AfterDhcp + 2 + LINK_MAX_RETRIES

\* What keeps the progress screen waiting: a carrier, or the user.
Waiting == is_terminal \/ (network_state = "WaitingForCarrier" /\ carrier_wait_start = "running")

\* While the progress screen is shown nothing gives it more to wait for, and a
\* tick that is not of no use gives it less, as the deadline does.
ProgressCounts ==
  [][screen = "NetworkProgress" /\ screen' = "NetworkProgress" =>
       /\ StepsLeft' <= StepsLeft
       /\ advance_connectivity /\ ~Waiting => StepsLeft' < StepsLeft
       /\ CarrierDeadline => StepsLeft' < StepsLeft]_vars
=============================================================================
