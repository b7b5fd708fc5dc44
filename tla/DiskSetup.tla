------------------------------ MODULE DiskSetup ------------------------------
(***************************************************************************)
(* The disk half of InstallerStateMachine: RAID level, disk group or disk, *)
(* confirmation, the SSH keys to import for each user, and run_install.    *)
(***************************************************************************)
EXTENDS InstallerState

max_disk_count ==
  IF Groups = {} THEN 0
  ELSE CHOOSE n \in {GroupSize[g] : g \in Groups} :
         \A g \in Groups : GroupSize[g] <= n

\* RaidConfig::for_disk_count and its recommended_for_count.
for_disk_count(n) ==
  (IF n >= 1 THEN {"Single"} ELSE {}) \cup
  (IF n >= 2 THEN {"BtrfsRaid1"} ELSE {}) \cup
  (IF n >= 3 THEN {"BtrfsRaid5"} ELSE {})

recommended_for_count(n) ==
  CASE n <= 1 -> "Single" [] n = 2 -> "BtrfsRaid1" [] OTHER -> "BtrfsRaid5"

min_disks_for_raid(raid) ==
  CASE raid = "BtrfsRaid1" -> 2 [] raid = "BtrfsRaid5" -> 3 [] OTHER -> 1

\* Mutant: the RAID level is not looked at.
all_disk_groups == Groups

compatible_disk_groups ==
  {g \in Groups : GroupSize[g] >= min_disks_for_raid(selected_raid)}

\* apply_easy_disk_defaults: the most disks, then the most bytes, then the
\* first group.
Better(a, b) ==
  \/ GroupSize[a] > GroupSize[b]
  \/ GroupSize[a] = GroupSize[b] /\ GroupBytes[a] > GroupBytes[b]
  \/ GroupSize[a] = GroupSize[b] /\ GroupBytes[a] = GroupBytes[b] /\ a < b

apply_easy_disk_defaults(best) ==
  LET raid == recommended_for_count(GroupSize[best]) IN
  /\ selected_raid' = raid
  /\ selected_disk' = IF raid = "Single" THEN GroupFirst[best] ELSE None
  /\ selected_disk_group' = IF raid = "Single" THEN None ELSE best

\* Mutant: Easy mode is tested before network-only.
EasyWantsDisks == install_mode = "Easy" \/ ~NetworkOnly

\* Which branch Enter takes on NetworkProgress.
WantsDisks == ~NetworkOnly

\* Enter on NetworkProgress, once online.
ToDisks ==
  /\ Key("NetworkProgress")
  /\ is_online
  /\ WantsDisks
  /\ \/ /\ install_mode = "Easy" /\ Groups # {}
        /\ \E best \in Groups :
             /\ \A g \in Groups \ {best} : Better(best, g)
             /\ apply_easy_disk_defaults(best)
        /\ MoveTo("Confirm")
     \/ /\ install_mode = "Easy" => Groups = {}
        /\ MoveTo("RaidConfig")
        /\ UNCHANGED diskVars
  /\ UNCHANGED <<install_mode, networkVars, sshVars, volumeVars, persisted,
                 machine, final_state>>

SelectRaidOption ==
  /\ Key("RaidConfig")
  /\ \E raid \in for_disk_count(max_disk_count) : selected_raid' = raid
  /\ MoveTo("DiskGroupSelect")
  /\ UNCHANGED <<install_mode, networkVars, selected_disk_group, selected_disk,
                 sshVars, volumeVars, persisted, machine, final_state>>

SelectDiskGroup ==
  /\ Key("DiskGroupSelect")
  /\ \/ /\ selected_raid = "Single"
        /\ \E d \in Disks : selected_disk' = d
        /\ selected_disk_group' = None
     \/ /\ selected_raid # "Single"
        /\ \E g \in compatible_disk_groups : selected_disk_group' = g
        /\ selected_disk' = None
  /\ MoveTo("Confirm")
  /\ UNCHANGED <<install_mode, networkVars, selected_raid, sshVars, volumeVars,
                 persisted, machine, final_state>>

\* Esc on Confirm: Easy mode never showed the disk screens.
BackFromConfirm ==
  /\ Key("Confirm")
  /\ \/ /\ install_mode = "Easy"
        /\ selected_raid' = "None"
        /\ selected_disk_group' = None
        /\ selected_disk' = None
        /\ MoveTo("InstallModeSelect")
     \/ /\ install_mode = "Advanced"
        /\ MoveTo("DiskGroupSelect")
        /\ UNCHANGED diskVars
  /\ UNCHANGED <<install_mode, networkVars, sshVars, volumeVars, persisted,
                 machine, final_state>>

\* Esc on the two disk screens, which forgets nothing.
DiskBack ==
  /\ \/ Key("RaidConfig")      /\ MoveTo("NetworkProgress")
     \/ Key("DiskGroupSelect") /\ MoveTo("RaidConfig")
  /\ UNCHANGED <<install_mode, networkVars, installVars>>
----------------------------------------------------------------------------
\* The devices run_install works on, if the choices made name any.
TargetChosen ==
  /\ selected_raid # "None"
  /\ IF selected_raid = "Single" THEN selected_disk # None
                                 ELSE selected_disk_group # None

\* run_install from the first partition to the last operation.  Errors of
\* partitioning and mkfs are recorded and ignored; those of mount and of the
\* base system end it.  `fresh': mkfs succeeded.
InstallOn ==
  /\ disk_recorded' = TRUE
  /\ \E fresh \in BOOLEAN :
       /\ formatted' = (formatted \/ fresh)
       /\ \/ /\ final_state' = "Error"            \* mount failed
             /\ UNCHANGED <<mounted, persisted>>
          \/ /\ mounted' = TRUE
             /\ persisted' \in {persisted, selected_interface}
             /\ final_state' = "Error"            \* install.sh failed
          \/ /\ mounted' \in BOOLEAN              \* umount is best effort
             /\ persisted' \in {persisted, selected_interface}
             /\ final_state' = "Installed"
  /\ screen' = "InstallProgress"

\* run_install returns at once when no target is chosen.
RunInstall ==
  IF TargetChosen
  THEN InstallOn
  ELSE UNCHANGED <<screen, disk_recorded, formatted, mounted, persisted,
                   final_state>>

ConfirmInstall ==
  /\ Key("Confirm")
  /\ should_quit' = FALSE
  /\ \/ NumUsers = 0 /\ RunInstall /\ UNCHANGED ssh_current_user_idx
     \/ /\ NumUsers > 0
        /\ ssh_current_user_idx' = 0
        /\ screen' = "SshKeyImport"
        /\ UNCHANGED <<volumeVars, persisted, final_state>>
  /\ UNCHANGED <<install_mode, networkVars, diskVars, ssh_keys, machine>>

\* ssh_users[ssh_current_user_idx], counted from 1.
CurrentUser == ssh_current_user_idx + 1

\* Mutant: off by one.
OneMoreUser(idx) == idx <= NumUsers

IsUser(idx) == idx < NumUsers

ImportSshKeys ==
  /\ Key("SshKeyImport")
  /\ IsUser(ssh_current_user_idx)
  /\ ssh_keys[CurrentUser] < MaxNames
  /\ ssh_keys' = [ssh_keys EXCEPT ![CurrentUser] = @ + 1]
  /\ UNCHANGED <<appVars, networkVars, diskVars, ssh_current_user_idx,
                 volumeVars, persisted, machine, final_state>>

\* An empty name ends a user's list; after the last user the install runs,
\* and the app quits once it has.
SkipSshKeys ==
  /\ Key("SshKeyImport")
  /\ ssh_current_user_idx' = ssh_current_user_idx + 1
  /\ \/ /\ IsUser(ssh_current_user_idx')
        /\ UNCHANGED <<screen, volumeVars, persisted, final_state>>
     \/ ~IsUser(ssh_current_user_idx') /\ RunInstall
  /\ should_quit' = (screen' # "SshKeyImport")
  /\ UNCHANGED <<install_mode, networkVars, diskVars, ssh_keys, machine>>

\* Mutant: going back from the first user.
BackFromSshUnchecked ==
  /\ Key("SshKeyImport")
  /\ ssh_current_user_idx' = ssh_current_user_idx - 1
  /\ UNCHANGED <<appVars, networkVars, ssh_keys, diskVars, volumeVars,
                 persisted, machine, final_state>>

BackFromSsh ==
  /\ Key("SshKeyImport")
  /\ \/ /\ ssh_current_user_idx > 0
        /\ ssh_current_user_idx' = ssh_current_user_idx - 1
        /\ UNCHANGED <<screen, ssh_keys>>
     \/ /\ ssh_current_user_idx = 0
        /\ ssh_keys' = [u \in Users |-> 0]
        /\ screen' = "Confirm"
        /\ UNCHANGED ssh_current_user_idx
  /\ UNCHANGED <<install_mode, should_quit, networkVars, diskVars, volumeVars,
                 persisted, machine, final_state>>

\* Mutant: a failed installation leads back to its confirmation.
InstallDoneRetrying ==
  /\ Key("InstallProgress")
  /\ MoveTo(IF final_state = "Error" THEN "Confirm" ELSE "Reboot")
  /\ UNCHANGED <<install_mode, networkVars, installVars>>

\* Enter on InstallProgress.
InstallDone ==
  /\ Key("InstallProgress")
  /\ MoveTo("Reboot")
  /\ UNCHANGED <<install_mode, networkVars, installVars>>

DiskKey ==
  \/ ToDisks \/ SelectRaidOption \/ SelectDiskGroup \/ BackFromConfirm
  \/ DiskBack \/ ConfirmInstall \/ ImportSshKeys \/ SkipSshKeys
  \/ BackFromSsh \/ InstallDone
=============================================================================
