------------------------------ MODULE Installer ------------------------------
(***************************************************************************)
(* The installer as a whole: the keys of the network and disk screens, the *)
(* keys every screen has (abort, quit), the final screen, the event loop's *)
(* ticks and the two deadlines; and what makes it correct.                 *)
(***************************************************************************)
EXTENDS NetworkSetup, DiskSetup

\* Screens that take text: there 'a', 'q' and Ctrl-C are typed, not mapped.
TextScreens == {"WifiPassword", "WifiCountry", "SshKeyImport"}

\* cleanup(): what the manifest recorded is undone.
cleanup ==
  /\ mounted' \in {mounted, mounted /\ ~disk_recorded}   \* umount: best effort
  /\ artifacts' = artifacts \ UNION
       {IF r[1] = "wpa" THEN {<<"wpa", r[2]>>, <<"wps", r[2]>>} ELSE {r} :
          r \in recorded}
  /\ associated' = [i \in WifiIfaces |->
       IF <<"wpa", i>> \in recorded THEN NoSsid ELSE associated[i]]

abort ==
  /\ cleanup
  /\ final_state' = "Aborted"
  /\ screen' = "Reboot"
  /\ UNCHANGED <<install_mode, bringUpVars, choiceVars, timerVars, linkVars,
                 recorded, diskVars, sshVars, disk_recorded, formatted,
                 persisted, machine>>

\* 'a': on Confirm it also ends the app.
AbortInstall ==
  /\ Iterating
  /\ screen \notin TextScreens
  /\ abort
  /\ should_quit' = (screen = "Confirm" \/ NetworkOnly)

\* 'q' or Ctrl-C: the app ends before the state machine hears of it.
Quit ==
  /\ Iterating
  /\ screen \notin TextScreens
  /\ should_quit' = TRUE
  /\ UNCHANGED <<screen, install_mode, networkVars, installVars>>

RebootSystem ==
  /\ Key("Reboot")
  /\ final_state' = "Rebooted"
  /\ machine' \in {machine, "rebooting"}
  /\ should_quit' = NetworkOnly
  /\ UNCHANGED <<screen, install_mode, networkVars, diskVars, sshVars,
                 volumeVars, persisted>>

ExitInstaller ==
  /\ Key("Reboot")
  /\ final_state' = "Exited"
  /\ should_quit' = TRUE
  /\ UNCHANGED <<screen, install_mode, networkVars, diskVars, sshVars,
                 volumeVars, persisted, machine>>

\* The entry labelled "Power Off", which map_enter maps to AbortInstall.
PowerOffEntry ==
  /\ Key("Reboot")
  /\ abort
  /\ should_quit' = NetworkOnly

FinalKey == AbortInstall \/ Quit \/ RebootSystem \/ ExitInstaller \/ PowerOffEntry

Next ==
  \/ NetworkKey \/ DiskKey \/ FinalKey
  \/ PollTimeout \/ advance_connectivity
  \/ Deadline

Spec == Init /\ [][Next]_vars

\* The loop keeps turning while a polling screen is shown, and time passes.
\* Nothing is assumed of the user, of the network or of the machine.
Fairness ==
  /\ WF_vars(PollTimeout \/ advance_connectivity)
  /\ WF_vars(CarrierDeadline)
  /\ WF_vars(WpsDeadline)

FairSpec == Spec /\ Fairness
----------------------------------------------------------------------------
DiskScreens == {"RaidConfig", "DiskGroupSelect", "Confirm", "SshKeyImport",
                "InstallProgress"}

\* No disk is offered, chosen or written unless the bring-up has finished:
\* no key, and no tick that runs after the key that left the progress
\* screen, takes the network state away from under the disk screens.
DiskScreensOnline ==
  screen \in DiskScreens => network_state = "Online" /\ selected_interface # None

\* The devices mkfs.btrfs insists on.
BtrfsNeeds == [BtrfsRaid1 |-> 2, BtrfsRaid5 |-> 3]

\* What the user confirms is what run_install will use: a RAID level with a
\* disk if it is Single and a large enough group if it is not, whichever way
\* back and forth, in either mode, led to the Confirm screen.
SelectionConsistent ==
  screen \in {"Confirm", "SshKeyImport"} =>
    \/ selected_raid = "Single" /\ selected_disk \in Disks
    \/ /\ selected_raid \in {"BtrfsRaid1", "BtrfsRaid5"}
       /\ selected_disk_group \in Groups
       /\ GroupSize[selected_disk_group] >= BtrfsNeeds[selected_raid]

\* The wifi screens act on a wifi interface, and those after the network
\* list on a network: connect_wifi and start_wps never drop a key silently.
WifiScreensReady ==
  /\ screen \in {"WifiSelect", "WifiCountry", "WpsPrompt", "WifiPassword",
                 "WpsWaiting"} => selected_interface \in WifiIfaces
  /\ screen \in {"WifiCountry", "WpsPrompt", "WifiPassword", "WpsWaiting"} =>
       selected_ssid # NoSsid

\* The key screen always asks for an existing user, and keys collected before
\* the user went back to Confirm are not imported as well: run_install sees
\* only what was typed since.
SshKeysAskedFor ==
  /\ screen = "SshKeyImport" => ssh_current_user_idx < NumUsers
  /\ screen = "Confirm" => \A u \in Users : ssh_keys[u] = 0

\* Online is earned: the interface called online passed the router, internet
\* and DNS checks since it, or its network, was last selected.  A state left
\* over from an earlier attempt does not count.
OnlineIsEarned ==
  network_state = "Online" => {selected_interface} \X Check \subseteq evidence

\* Everything the installer changes can be undone from its manifest: each
\* DHCP configuration, each password supplicant and the mount are recorded,
\* whatever became of the operation.
EffectsAreRecorded ==
  /\ \A i \in Ifaces : <<"networkd", i>> \in artifacts => <<"networkd", i>> \in recorded
  /\ \A i \in Ifaces : <<"wpa", i>> \in artifacts => <<"wpa", i>> \in recorded
  /\ mounted => disk_recorded

\* The getty's reconfigure flow never touches a disk.
NetworkOnlyNeverInstalls ==
  NetworkOnly => screen \notin DiskScreens /\ ~disk_recorded

\* Every check gets its whole budget: it starts counting at zero, and the
\* bring-up gives up on it only after that many failures in a row.
FullBudget ==
  [][/\ network_state' \in Checking /\ network_state' # network_state
          => connectivity_retries' = 0
     /\ network_state \in Checking /\ network_state' = "Error"
          => connectivity_retries' = Budget[network_state]]_vars

\* Only a proven configuration is persisted to the installed system: that of
\* the interface that is online.
PersistedIsProven ==
  [][persisted' # persisted =>
       /\ network_state = "Online"
       /\ persisted' = selected_interface
       /\ {persisted'} \X Check \subseteq evidence]_vars
----------------------------------------------------------------------------
\* The installer is a provisioning session: its proven interface is the one
\* selected while the state is Online.
Session == INSTANCE Provisioning WITH
  shown       <- evidence,
  proven      <- IF network_state = "Online" THEN selected_interface ELSE None,
  written     <- disk_recorded,
  saved       <- persisted,
  installed   <- final_state = "Installed",
  SparesDisks <- NetworkOnly

\* Screens, retries, deadlines, mode changes and keys in any order amount to
\* no more than a provisioning session: in particular there is one write to
\* the disks at most, and no way back into the bring-up after it.
Provisions == Session!Spec
\* The stage of a bring-up that a network state stands for.
Stage ==
  LET stages == [Offline          |-> "enable",   DeviceEnabled   |-> "link",
                 DhcpConfiguring  |-> "address",  IpAssigned      |-> "router",
                 CheckingRouter   |-> "internet", CheckingInternet |-> "dns",
                 CheckingDns      |-> "primary",  Online          |-> "online",
                 Error            |-> "error"]
  IN IF network_state \in DOMAIN stages THEN stages[network_state] ELSE "away"

Ticks == INSTANCE BringUp WITH
  Limit    <- [enable  |-> 1, link |-> LINK_MAX_RETRIES, address |-> 1,
               router  |-> MAX_RETRIES, internet |-> MAX_RETRIES,
               dns     |-> DNS_MAX_RETRIES],
  stage    <- Stage,
  failures <- IF network_state \in Checking THEN connectivity_retries ELSE 0

\* Whatever keys, deadlines and ticks come between, and on whichever interface:
\* no stage of a bring-up is skipped, none is given up on before its own budget
\* is used up, and none starts with the failures of another, though all of them
\* share one counter.
BringsUp == Ticks!Spec
----------------------------------------------------------------------------
\* The progress screen always comes to an end: left to itself, a bring-up
\* reaches Online or an error that is shown, or falls back to a screen with
\* a choice.  No mix of retries, timeouts and keys makes it poll for ever.
BringUpSettles ==
  (screen = "NetworkProgress") ~>
     (screen # "NetworkProgress" \/ should_quit
        \/ network_state \in {"Online", "Error"})

\* The WPS screen goes away by itself within its deadline.
WpsEnds == (screen = "WpsWaiting") ~> (screen # "WpsWaiting" \/ should_quit)
----------------------------------------------------------------------------
(***************************************************************************)
(* What the documentation, comments and tests say and the code does not do.*)
(***************************************************************************)
\* A finished installation sits on the filesystem it made.
InstalledOnNewFilesystem == final_state = "Installed" => formatted
=============================================================================
