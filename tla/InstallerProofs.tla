--------------------------- MODULE InstallerProofs ---------------------------
(***************************************************************************)
(* The installer's types and safety properties, for every number of        *)
(* interfaces, networks, disks, groups and users, and every retry budget.  *)
(* Each property is proved from the inductive strengthening InstallerInv   *)
(* gives it, step by step over the groups of actions that can disturb it.  *)
(***************************************************************************)
EXTENDS InstallerInv, TLAPS

USE DEF appVars, bringUpVars, choiceVars, timerVars, linkVars, wpaVars,
        networkVars, diskVars, sshVars, volumeVars, installVars,
        Key, Iterating, MoveTo, Tick, TickKeepsApp, Advancing,
        record, is_online, IsUser, WantsDisks

LEMMA TypeInit == Init => TypeOK
<1> SUFFICES ASSUME Init PROVE TypeOK
    OBVIOUS
<1> USE DEF Init
<1>1. ssh_keys \in [Users -> 0..MaxNames]
  BY SessionAssumption
<1>2. associated \in [WifiIfaces -> Ssids \cup {NoSsid}]
  OBVIOUS
<1>3. has_carrier \in SUBSET Ethernet
  BY InterfaceAssumption
<1>4. screen \in ScreenId
  BY DEF ScreenId
<1> QED
  BY <1>1, <1>2, <1>3, <1>4
     DEF TypeOK, NetworkState, InstallMode, InstallerFinalState, RaidConfig,
         Timer, None

LEMMA TypeNetworkKey == TypeOK /\ NetworkKey => TypeOK'
<1> SUFFICES ASSUME TypeOK, NetworkKey PROVE TypeOK'
    OBVIOUS
<1> USE InterfaceAssumption, WifiAssumption
    DEF TypeOK, ScreenId, NetworkState, InstallMode, InstallerFinalState,
        RaidConfig, Timer, Check, None, Ethernet, Ifaces
<1>a. ASSUME NEW i \in Ethernet, BringEthernetOnline(i),
             install_mode' \in InstallMode, phase' \in {"poll", "advance"},
             UNCHANGED installVars
      PROVE  TypeOK'
  BY <1>a DEF BringEthernetOnline
<1>b. ASSUME NEW ok \in SUBSET Ethernet, WaitForCarrier(ok),
             install_mode' \in InstallMode, phase' \in {"poll", "advance"},
             UNCHANGED installVars
      PROVE  TypeOK'
  BY <1>b DEF WaitForCarrier
<1>1. CASE SelectEasyMode
  <2>1. phase' \in {"poll", "advance"} /\ install_mode' \in InstallMode
    BY <1>1 DEF SelectEasyMode
  <2>2. CASE \E i \in has_carrier : BringEthernetOnline(i)
    BY <2>2, <2>1, <1>1, <1>a DEF SelectEasyMode
  <2>3. CASE \E ok \in SUBSET Ethernet : WaitForCarrier(ok)
    BY <2>3, <2>1, <1>1, <1>b DEF SelectEasyMode
  <2>4. CASE MoveTo("NetworkConfig") /\ UNCHANGED networkVars
    BY <2>4, <2>1, <1>1 DEF SelectEasyMode
  <2> QED
    BY <2>2, <2>3, <2>4, <1>1 DEF SelectEasyMode
<1>2. CASE SelectAdvancedMode
  BY <1>2 DEF SelectAdvancedMode
<1>3. CASE SelectInterface
  <2>1. CASE \E i \in Ethernet : BringEthernetOnline(i)
    BY <2>1, <1>3, <1>a DEF SelectInterface
  <2>2. CASE \E i \in WifiIfaces : EnableAndScan(i)
    <3> PICK i \in WifiIfaces : EnableAndScan(i)
      BY <2>2
    <3>1. i \in Ifaces /\ up \cup {i} \in SUBSET Ifaces
      OBVIOUS
    <3> QED
      BY <3>1, <1>3 DEF SelectInterface, EnableAndScan
  <2> QED
    BY <2>1, <2>2, <1>3 DEF SelectInterface
<1>4. CASE SelectWifiNetwork
  BY <1>4 DEF SelectWifiNetwork, AuthScreen
<1>5. CASE SelectCountry
  BY <1>5 DEF SelectCountry, AuthScreen
<1>6. CASE EnterWifiPassword
  BY <1>6 DEF EnterWifiPassword, Authenticate
<1>7. CASE WpsAccept
  BY <1>7 DEF WpsAccept, StartWps
<1>8. CASE WpsDecline
  BY <1>8 DEF WpsDecline
<1>9. CASE CancelWps
  BY <1>9 DEF CancelWps
<1>10. CASE LeaveProgress
  BY <1>10 DEF LeaveProgress
<1>11. CASE NetworkBack
  BY <1>11 DEF NetworkBack
<1>12. CASE ShowWifiQr
  BY <1>12 DEF ShowWifiQr
<1>13. CASE FinishNetworkOnly
  BY <1>13 DEF FinishNetworkOnly, PersistNetworkConfig
<1> QED
  BY <1>1, <1>2, <1>3, <1>4, <1>5, <1>6, <1>7, <1>8, <1>9, <1>10, <1>11,
     <1>12, <1>13 DEF NetworkKey

LEMMA TypeAdvance == TypeOK /\ advance_connectivity => TypeOK'
<1> SUFFICES ASSUME TypeOK, advance_connectivity PROVE TypeOK'
    OBVIOUS
<1> USE InterfaceAssumption, WifiAssumption
    DEF TypeOK, ScreenId, NetworkState, Timer, Check, None, Ethernet, Ifaces
<1>1. CASE EnableInterface
  <2>1. selected_interface \in Ifaces
    BY <1>1 DEF EnableInterface
  <2>2. up' \in SUBSET Ifaces
    BY <2>1, <1>1 DEF EnableInterface
  <2>3. network_state' \in NetworkState /\ connectivity_retries' \in Nat
    BY <1>1 DEF EnableInterface
  <2> QED
    BY <2>2, <2>3, <1>1 DEF EnableInterface
<1>2. CASE CheckPasses
  BY <1>2 DEF CheckPasses, Checking, Budget, AfterCheck, Shows
<1>3. CASE CheckFails
  BY <1>3 DEF CheckFails, Checking, Budget
<1>4. CASE WpsTimesOut
  BY <1>4 DEF WpsTimesOut
<1>5. CASE WpsCompletes
  <2>1. associated' \in [WifiIfaces -> Ssids \cup {NoSsid}]
    <3> PICK s \in Ssids :
          associated' = [associated EXCEPT ![selected_interface] = s]
      BY <1>5 DEF WpsCompletes
    <3> QED
      OBVIOUS
  <2> QED
    BY <2>1, <1>5 DEF WpsCompletes
<1>6. CASE Connect
  BY <1>6 DEF Connect
<1>7. CASE AlreadyHasIp
  BY <1>7 DEF AlreadyHasIp
<1>8. CASE ConfigureDhcp
  BY <1>8 DEF ConfigureDhcp
<1>9. CASE GoOnline
  BY <1>9 DEF GoOnline
<1>10. CASE CarrierFound
  BY <1>10 DEF CarrierFound
<1>11. CASE CarrierWaitEnds
  BY <1>11 DEF CarrierWaitEnds
<1>12. CASE TickIdles
  BY <1>12 DEF TickIdles
<1> QED
  BY <1>1, <1>2, <1>3, <1>4, <1>5, <1>6, <1>7, <1>8, <1>9, <1>10, <1>11,
     <1>12 DEF advance_connectivity

LEMMA TypeDiskKey == TypeOK /\ DiskKey => TypeOK'
<1> SUFFICES ASSUME TypeOK, DiskKey PROVE TypeOK'
    OBVIOUS
<1> USE DiskAssumption, SessionAssumption
    DEF TypeOK, ScreenId, RaidConfig, InstallerFinalState, None, Disks, Users
<1>1. CASE ToDisks
  <2>1. CASE UNCHANGED diskVars
    BY <2>1, <1>1 DEF ToDisks
  <2>2. ASSUME NEW best \in Groups, apply_easy_disk_defaults(best),
               MoveTo("Confirm")
        PROVE  TypeOK'
    <3>1. recommended_for_count(GroupSize[best]) \in RaidConfig
      BY DEF recommended_for_count
    <3>2. GroupFirst[best] \in Disks
      OBVIOUS
    <3>3. /\ selected_raid' \in RaidConfig
          /\ selected_disk' \in Disks \cup {None}
          /\ selected_disk_group' \in Groups \cup {None}
      BY <2>2, <3>1, <3>2 DEF apply_easy_disk_defaults
    <3> QED
      BY <2>2, <3>3, <1>1 DEF ToDisks
  <2> QED
    BY <2>1, <2>2, <1>1 DEF ToDisks
<1>2. CASE SelectRaidOption
  <2>1. for_disk_count(max_disk_count) \subseteq RaidConfig
    BY DEF for_disk_count
  <2> QED
    BY <2>1, <1>2 DEF SelectRaidOption
<1>3. CASE SelectDiskGroup
  BY <1>3 DEF SelectDiskGroup, compatible_disk_groups
<1>4. CASE BackFromConfirm
  BY <1>4 DEF BackFromConfirm
<1>5. CASE DiskBack
  BY <1>5 DEF DiskBack
<1>6. ASSUME RunInstall
      PROVE  /\ screen' \in ScreenId
             /\ disk_recorded' \in BOOLEAN
             /\ formatted' \in BOOLEAN
             /\ mounted' \in BOOLEAN
             /\ persisted' \in Ifaces \cup {None}
             /\ final_state' \in InstallerFinalState
  BY <1>6 DEF RunInstall, InstallOn
<1>7. CASE ConfirmInstall
  <2>1. CASE RunInstall /\ UNCHANGED ssh_current_user_idx
    BY <2>1, <1>6, <1>7 DEF ConfirmInstall
  <2>2. CASE ssh_current_user_idx' = 0 /\ screen' = "SshKeyImport"
             /\ UNCHANGED <<volumeVars, persisted, final_state>>
    <3>1. ssh_current_user_idx' \in Nat /\ screen' \in ScreenId
      BY <2>2
    <3>2. /\ UNCHANGED <<install_mode, networkVars, diskVars, ssh_keys, machine>>
          /\ phase' \in {"poll", "advance"} /\ should_quit' \in BOOLEAN
      BY <1>7 DEF ConfirmInstall
    <3> QED
      BY <3>1, <3>2, <2>2
  <2> QED
    BY <2>1, <2>2, <1>7 DEF ConfirmInstall
<1>8. CASE ImportSshKeys
  <2>1. ssh_keys' \in [Users -> 0..MaxNames]
    BY <1>8 DEF ImportSshKeys, CurrentUser
  <2> QED
    BY <2>1, <1>8 DEF ImportSshKeys
<1>9. CASE SkipSshKeys
  <2>1. ssh_current_user_idx' \in Nat /\ should_quit' \in BOOLEAN
    BY <1>9 DEF SkipSshKeys
  <2>2. CASE RunInstall
    BY <2>1, <2>2, <1>6, <1>9 DEF SkipSshKeys
  <2>3. CASE UNCHANGED <<screen, volumeVars, persisted, final_state>>
    BY <2>1, <2>3, <1>9 DEF SkipSshKeys
  <2> QED
    BY <2>2, <2>3, <1>9 DEF SkipSshKeys
<1>10. CASE BackFromSsh
  <2>1. ssh_current_user_idx' \in Nat
    BY <1>10 DEF BackFromSsh
  <2>2. ssh_keys' \in [Users -> 0..MaxNames]
    BY <1>10 DEF BackFromSsh
  <2> QED
    BY <2>1, <2>2, <1>10 DEF BackFromSsh
<1>11. CASE InstallDone
  BY <1>11 DEF InstallDone
<1> QED
  BY <1>1, <1>2, <1>3, <1>4, <1>5, <1>7, <1>8, <1>9, <1>10, <1>11 DEF DiskKey

LEMMA TypeFinalKey == TypeOK /\ FinalKey => TypeOK'
<1> SUFFICES ASSUME TypeOK, FinalKey PROVE TypeOK'
    OBVIOUS
<1> USE SessionAssumption DEF TypeOK, ScreenId, InstallerFinalState
<1>1. ASSUME abort, should_quit' \in BOOLEAN, phase' \in {"poll", "advance"}
      PROVE  TypeOK'
  <2>1. /\ mounted' \in BOOLEAN
        /\ associated' \in [WifiIfaces -> Ssids \cup {NoSsid}]
    BY <1>1 DEF abort, cleanup
  <2>2. artifacts' \subseteq artifacts
    BY <1>1 DEF abort, cleanup
  <2> QED
    BY <1>1, <2>1, <2>2 DEF abort
<1>2. CASE AbortInstall
  BY <1>2, <1>1 DEF AbortInstall
<1>3. CASE Quit
  BY <1>3 DEF Quit
<1>4. CASE RebootSystem
  BY <1>4 DEF RebootSystem
<1>5. CASE ExitInstaller
  BY <1>5 DEF ExitInstaller
<1>6. CASE PowerOffEntry
  BY <1>6, <1>1 DEF PowerOffEntry
<1> QED
  BY <1>2, <1>3, <1>4, <1>5, <1>6 DEF FinalKey

LEMMA TypeNext == TypeOK /\ [Next]_vars => TypeOK'
<1> SUFFICES ASSUME TypeOK, [Next]_vars PROVE TypeOK'
    OBVIOUS
<1>1. CASE PollTimeout
  BY <1>1 DEF PollTimeout, TypeOK
<1>2. CASE Deadline
  BY <1>2 DEF Deadline, CarrierDeadline, WpsDeadline, TypeOK, Timer
<1>3. CASE UNCHANGED vars
  BY <1>3 DEF vars, TypeOK
<1> QED
  BY <1>1, <1>2, <1>3, TypeNetworkKey, TypeDiskKey, TypeFinalKey, TypeAdvance
     DEF Next

\* Every variable keeps its type.
THEOREM TypeCorrect == Spec => []TypeOK
BY TypeInit, TypeNext, PTL DEF Spec

----------------------------------------------------------------------------
\* Only the network screens and the ticks move the bring-up.
LEMMA BringUpFrame ==
  DiskKey \/ FinalKey \/ PollTimeout \/ Deadline \/ UNCHANGED vars =>
    UNCHANGED <<network_state, connectivity_retries, evidence,
                selected_interface, selected_ssid>>
<1>1. DiskKey => UNCHANGED networkVars
  BY DEF DiskKey, ToDisks, SelectRaidOption, SelectDiskGroup, BackFromConfirm,
     DiskBack, ConfirmInstall, ImportSshKeys, SkipSshKeys, BackFromSsh,
     InstallDone
<1>2. FinalKey => UNCHANGED <<bringUpVars, choiceVars>>
  BY DEF FinalKey, AbortInstall, Quit, RebootSystem, ExitInstaller,
     PowerOffEntry, abort
<1>3. PollTimeout \/ Deadline \/ UNCHANGED vars =>
        UNCHANGED <<bringUpVars, choiceVars>>
  BY DEF PollTimeout, Deadline, CarrierDeadline, WpsDeadline, vars
<1> QED
  BY <1>1, <1>2, <1>3

\* Only the disk screens change what is chosen and what is installed.
LEMMA InstallFrame ==
  NetworkKey \/ advance_connectivity \/ PollTimeout \/ Deadline
    \/ UNCHANGED vars =>
    UNCHANGED <<diskVars, sshVars, volumeVars, machine, final_state>>
<1>1. NetworkKey => UNCHANGED <<diskVars, sshVars, volumeVars, machine, final_state>>
  BY DEF NetworkKey, SelectEasyMode, SelectAdvancedMode, SelectInterface,
     SelectWifiNetwork, SelectCountry, EnterWifiPassword, WpsAccept,
     WpsDecline, CancelWps, LeaveProgress, NetworkBack, ShowWifiQr,
     FinishNetworkOnly
<1>2. advance_connectivity => UNCHANGED installVars
  BY DEF advance_connectivity, EnableInterface, CheckPasses, CheckFails,
     WpsTimesOut, WpsCompletes, Connect, AlreadyHasIp, ConfigureDhcp, GoOnline,
     CarrierFound, CarrierWaitEnds, TickIdles
<1>3. PollTimeout \/ Deadline \/ UNCHANGED vars => UNCHANGED installVars
  BY DEF PollTimeout, Deadline, CarrierDeadline, WpsDeadline, vars
<1> QED
  BY <1>1, <1>2, <1>3

----------------------------------------------------------------------------
(***************************************************************************)
(* Online is earned.                                                       *)
(***************************************************************************)
LEMMA EvidenceStep == EvidenceSoFar /\ [Next]_vars => EvidenceSoFar'
<1> SUFFICES ASSUME EvidenceSoFar, [Next]_vars PROVE EvidenceSoFar'
    OBVIOUS
<1> USE DEF EvidenceSoFar, Shown
<1>1. ASSUME UNCHANGED <<network_state, selected_interface, evidence>>
      PROVE  EvidenceSoFar'
  BY <1>1
<1>2. ASSUME network_state' \notin DOMAIN Shown
      PROVE  EvidenceSoFar'
  BY <1>2
<1>3. CASE NetworkKey
  <2>1. CASE SelectEasyMode
    BY <2>1, <1>1, <1>2 DEF SelectEasyMode, BringEthernetOnline, WaitForCarrier
  <2>2. CASE SelectAdvancedMode \/ WpsDecline \/ NetworkBack \/ ShowWifiQr
    BY <2>2, <1>1 DEF SelectAdvancedMode, WpsDecline, NetworkBack, ShowWifiQr
  <2>3. CASE SelectInterface
    BY <2>3, <1>2 DEF SelectInterface, BringEthernetOnline, EnableAndScan
  <2>4. CASE SelectWifiNetwork \/ EnterWifiPassword
    BY <2>4, <1>2 DEF SelectWifiNetwork, EnterWifiPassword
  <2>5. CASE SelectCountry \/ FinishNetworkOnly
    BY <2>5, <1>1 DEF SelectCountry, FinishNetworkOnly
  <2>6. CASE WpsAccept
    BY <2>6, <1>1, <1>2 DEF WpsAccept
  <2>7. CASE CancelWps \/ LeaveProgress
    BY <2>7, <1>2 DEF CancelWps, LeaveProgress
  <2> QED
    BY <1>3, <2>1, <2>2, <2>3, <2>4, <2>5, <2>6, <2>7 DEF NetworkKey
<1>4. CASE DiskKey \/ FinalKey \/ PollTimeout \/ Deadline \/ UNCHANGED vars
  BY <1>4, <1>1, BringUpFrame
<1>5. CASE advance_connectivity
  <2>1. CASE EnableInterface \/ CheckFails
    BY <2>1, <1>1, <1>2 DEF EnableInterface, CheckFails, Checking, Budget
  <2>2. CASE CheckPasses
    BY <2>2 DEF CheckPasses, Checking, Budget, AfterCheck, Shows
  <2>3. CASE WpsTimesOut \/ WpsCompletes \/ Connect \/ AlreadyHasIp
             \/ ConfigureDhcp \/ CarrierFound \/ CarrierWaitEnds
    BY <2>3, <1>2 DEF WpsTimesOut, WpsCompletes, Connect, AlreadyHasIp,
       ConfigureDhcp, CarrierFound, CarrierWaitEnds
  <2>4. CASE GoOnline
    BY <2>4 DEF GoOnline
  <2>5. CASE TickIdles
    BY <2>5, <1>1 DEF TickIdles
  <2> QED
    BY <1>5, <2>1, <2>2, <2>3, <2>4, <2>5 DEF advance_connectivity
<1> QED
  BY <1>3, <1>4, <1>5 DEF Next

\* Whatever the keys, ticks and results, an interface is online only after
\* the router, internet and DNS checks passed on it since it was selected.
THEOREM OnlineEarned == Spec => []OnlineIsEarned
<1>1. Init => EvidenceSoFar
  BY DEF Init, EvidenceSoFar, Shown
<1>2. EvidenceSoFar => OnlineIsEarned
  BY DEF EvidenceSoFar, Shown, OnlineIsEarned, Check
<1> QED
  BY <1>1, <1>2, EvidenceStep, PTL DEF Spec

----------------------------------------------------------------------------
(***************************************************************************)
(* Every check gets its whole budget.                                      *)
(***************************************************************************)
LEMMA BudgetStep == TypeOK /\ BudgetLeft /\ [Next]_vars => BudgetLeft'
<1> SUFFICES ASSUME TypeOK, BudgetLeft, [Next]_vars PROVE BudgetLeft'
    OBVIOUS
<1> USE RetryAssumption DEF BudgetLeft, Checking, Budget
<1>1. ASSUME UNCHANGED <<network_state, connectivity_retries>>
      PROVE  BudgetLeft'
  BY <1>1
<1>2. ASSUME network_state' \notin Checking \/ connectivity_retries' = 0
      PROVE  BudgetLeft'
  BY <1>2
<1>3. CASE NetworkKey
  <2>1. CASE SelectEasyMode
    BY <2>1, <1>1, <1>2 DEF SelectEasyMode, BringEthernetOnline, WaitForCarrier
  <2>2. CASE SelectAdvancedMode \/ WpsDecline \/ NetworkBack \/ ShowWifiQr
    BY <2>2, <1>1 DEF SelectAdvancedMode, WpsDecline, NetworkBack, ShowWifiQr
  <2>3. CASE SelectInterface
    BY <2>3, <1>2 DEF SelectInterface, BringEthernetOnline, EnableAndScan
  <2>4. CASE SelectWifiNetwork \/ EnterWifiPassword
    BY <2>4, <1>2 DEF SelectWifiNetwork, EnterWifiPassword
  <2>5. CASE SelectCountry \/ FinishNetworkOnly
    BY <2>5, <1>1 DEF SelectCountry, FinishNetworkOnly
  <2>6. CASE WpsAccept
    BY <2>6, <1>1, <1>2 DEF WpsAccept
  <2>7. CASE CancelWps \/ LeaveProgress
    BY <2>7, <1>2 DEF CancelWps, LeaveProgress
  <2> QED
    BY <1>3, <2>1, <2>2, <2>3, <2>4, <2>5, <2>6, <2>7 DEF NetworkKey
<1>4. CASE DiskKey \/ FinalKey \/ PollTimeout \/ Deadline \/ UNCHANGED vars
  BY <1>4, <1>1, BringUpFrame
<1>5. CASE advance_connectivity
  <2>1. CASE EnableInterface \/ CheckPasses
    BY <2>1, <1>2 DEF EnableInterface, CheckPasses
  <2>2. CASE CheckFails
    BY <2>2 DEF CheckFails, TypeOK
  <2>3. CASE WpsTimesOut \/ WpsCompletes \/ Connect \/ AlreadyHasIp
             \/ ConfigureDhcp \/ CarrierFound \/ CarrierWaitEnds \/ GoOnline
    BY <2>3, <1>2 DEF WpsTimesOut, WpsCompletes, Connect, AlreadyHasIp,
       ConfigureDhcp, CarrierFound, CarrierWaitEnds, GoOnline
  <2>4. CASE TickIdles
    BY <2>4, <1>1 DEF TickIdles
  <2> QED
    BY <1>5, <2>1, <2>2, <2>3, <2>4 DEF advance_connectivity
<1> QED
  BY <1>3, <1>4, <1>5 DEF Next

\* A state left with fewer failures than its budget is not an error.
LEMMA BudgetUsed ==
  ASSUME TypeOK, BudgetLeft, Next,
         network_state \in Checking, network_state' = "Error"
  PROVE  connectivity_retries' = Budget[network_state]
<1> USE DEF Checking, Budget
<1>1. CASE NetworkKey
  BY <1>1 DEF NetworkKey, SelectEasyMode, SelectAdvancedMode, SelectInterface,
     SelectWifiNetwork, SelectCountry, EnterWifiPassword, WpsAccept,
     WpsDecline, CancelWps, LeaveProgress, NetworkBack, ShowWifiQr,
     FinishNetworkOnly, BringEthernetOnline, WaitForCarrier, EnableAndScan
<1>2. CASE DiskKey \/ FinalKey \/ PollTimeout \/ Deadline
  BY <1>2, BringUpFrame
<1>3. CASE CheckFails
  BY <1>3, RetryAssumption DEF CheckFails, BudgetLeft, TypeOK
<1>4. CASE advance_connectivity /\ ~CheckFails
  BY <1>4 DEF advance_connectivity, EnableInterface, CheckPasses, AfterCheck,
     WpsTimesOut, WpsCompletes, Connect, AlreadyHasIp, ConfigureDhcp, GoOnline,
     CarrierFound, CarrierWaitEnds, TickIdles
<1> QED
  BY <1>1, <1>2, <1>3, <1>4 DEF Next

\* A state that retries is entered with its counter at zero.
LEMMA BudgetFresh ==
  ASSUME Next, network_state' \in Checking, network_state' # network_state
  PROVE  connectivity_retries' = 0
<1> USE DEF Checking, Budget
<1>1. CASE NetworkKey
  BY <1>1 DEF NetworkKey, SelectEasyMode, SelectAdvancedMode, SelectInterface,
     SelectWifiNetwork, SelectCountry, EnterWifiPassword, WpsAccept,
     WpsDecline, CancelWps, LeaveProgress, NetworkBack, ShowWifiQr,
     FinishNetworkOnly, BringEthernetOnline, WaitForCarrier, EnableAndScan
<1>2. CASE DiskKey \/ FinalKey \/ PollTimeout \/ Deadline
  BY <1>2, BringUpFrame
<1>3. CASE advance_connectivity
  BY <1>3 DEF advance_connectivity, EnableInterface, CheckPasses, CheckFails,
     WpsTimesOut, WpsCompletes, Connect, AlreadyHasIp, ConfigureDhcp, GoOnline,
     CarrierFound, CarrierWaitEnds, TickIdles
<1> QED
  BY <1>1, <1>2, <1>3 DEF Next

\* No check of the bring-up is given up on early, whatever attempt of the
\* same session came before it.
THEOREM WholeBudget == Spec => FullBudget
<1>1. Init => BudgetLeft
  BY DEF Init, BudgetLeft, Checking, Budget
<1>2. TypeOK /\ BudgetLeft /\ [Next]_vars =>
        [/\ network_state' \in Checking /\ network_state' # network_state
               => connectivity_retries' = 0
         /\ network_state \in Checking /\ network_state' = "Error"
               => connectivity_retries' = Budget[network_state]]_vars
  BY BudgetUsed, BudgetFresh
<1> QED
  BY <1>1, <1>2, TypeCorrect, BudgetStep, PTL DEF Spec, FullBudget

----------------------------------------------------------------------------
(***************************************************************************)
(* The disk screens: online, with a consistent target.                     *)
(***************************************************************************)
LEMMA RecommendedFits ==
  ASSUME NEW g \in Groups
  PROVE  LET raid == recommended_for_count(GroupSize[g]) IN
         \/ raid = "Single" /\ GroupFirst[g] \in Disks
         \/ /\ raid \in {"BtrfsRaid1", "BtrfsRaid5"}
            /\ GroupSize[g] >= BtrfsNeeds[raid]
  BY DiskAssumption DEF recommended_for_count, BtrfsNeeds, Groups

LEMMA NoZero == None \notin Groups /\ None \notin Disks
  BY DiskAssumption DEF None, Groups, Disks

\* What the app does with a tick or a key cannot leave the disk screens
\* without a network, and only ToDisks enters them.
LEMMA DiskFlowNetwork == DiskFlow /\ (NetworkKey \/ advance_connectivity) => DiskFlow'
<1> SUFFICES ASSUME DiskFlow, NetworkKey \/ advance_connectivity
             PROVE  DiskFlow'
    OBVIOUS
<1> USE DEF DiskFlow, DiskScreensOnline, DiskScreens, SelectionConsistent
<1>1. UNCHANGED diskVars
  BY InstallFrame
<1>2. CASE NetworkKey
  <2>1. screen' \notin DiskScreens
    BY <1>2 DEF NetworkKey, SelectEasyMode, SelectAdvancedMode,
       SelectInterface, SelectWifiNetwork, SelectCountry, EnterWifiPassword,
       WpsAccept, WpsDecline, CancelWps, LeaveProgress, NetworkBack, ShowWifiQr,
       FinishNetworkOnly, BringEthernetOnline, WaitForCarrier, EnableAndScan,
       AuthScreen
  <2>2. network_state' = "Online" => selected_interface' # None
    BY <1>2 DEF NetworkKey, SelectEasyMode, SelectAdvancedMode,
       SelectInterface, SelectWifiNetwork, SelectCountry, EnterWifiPassword,
       WpsAccept, WpsDecline, CancelWps, LeaveProgress, NetworkBack, ShowWifiQr,
       FinishNetworkOnly, BringEthernetOnline, WaitForCarrier, EnableAndScan
  <2> QED
    BY <2>1, <2>2
<1>3. CASE advance_connectivity
  <2>1. \/ UNCHANGED <<screen, network_state, selected_interface>>
        \/ /\ network_state # "Online"
           /\ screen' \in {screen, "WifiSelect", "NetworkProgress",
                           "NetworkConfig"}
           /\ network_state' = "Online" => selected_interface' # None
    BY <1>3 DEF advance_connectivity, EnableInterface, CheckPasses, CheckFails,
       Checking, Budget, AfterCheck, WpsTimesOut, WpsCompletes, Connect,
       AlreadyHasIp, ConfigureDhcp, GoOnline, CarrierFound, CarrierWaitEnds,
       TickIdles
  <2> QED
    BY <2>1, <1>1
<1> QED
  BY <1>2, <1>3

LEMMA DiskFlowDisk == TypeOK /\ DiskFlow /\ DiskKey => DiskFlow'
<1> SUFFICES ASSUME TypeOK, DiskFlow, DiskKey PROVE DiskFlow'
    OBVIOUS
<1> USE DEF DiskFlow, DiskScreensOnline, DiskScreens, SelectionConsistent
<1>1. UNCHANGED <<network_state, selected_interface>>
  BY BringUpFrame
<1>2. CASE ToDisks
  <2>1. ASSUME NEW best \in Groups, apply_easy_disk_defaults(best),
               screen' = "Confirm"
        PROVE  SelectionConsistent'
    BY <2>1, RecommendedFits DEF apply_easy_disk_defaults
  <2> QED
    BY <1>1, <1>2, <2>1 DEF ToDisks
<1>3. CASE SelectRaidOption
  BY <1>1, <1>3 DEF SelectRaidOption, for_disk_count, RaidConfig
<1>4. CASE SelectDiskGroup
  <2>1. CASE selected_raid = "Single"
    BY <1>1, <1>4, <2>1 DEF SelectDiskGroup
  <2>2. CASE selected_raid # "Single"
    <3>1. selected_raid \in {"BtrfsRaid1", "BtrfsRaid5"}
      BY <1>4, <2>2 DEF SelectDiskGroup, RaidConfig
    <3>2. min_disks_for_raid(selected_raid) = BtrfsNeeds[selected_raid]
      BY <3>1 DEF min_disks_for_raid, BtrfsNeeds
    <3> QED
      BY <1>1, <1>4, <2>2, <3>1, <3>2
         DEF SelectDiskGroup, compatible_disk_groups
  <2> QED
    BY <2>1, <2>2
<1>5. CASE BackFromConfirm
  BY <1>1, <1>5 DEF BackFromConfirm, TypeOK, RaidConfig
<1>6. CASE DiskBack
  BY <1>1, <1>6 DEF DiskBack
<1>7. CASE ConfirmInstall
  BY <1>1, <1>7 DEF ConfirmInstall, RunInstall, InstallOn
<1>8. CASE ImportSshKeys
  BY <1>1, <1>8 DEF ImportSshKeys
<1>9. CASE SkipSshKeys
  BY <1>1, <1>9 DEF SkipSshKeys, RunInstall, InstallOn
<1>10. CASE BackFromSsh
  BY <1>1, <1>10 DEF BackFromSsh
<1>11. CASE InstallDone
  BY <1>1, <1>11 DEF InstallDone
<1> QED
  BY <1>2, <1>3, <1>4, <1>5, <1>6, <1>7, <1>8, <1>9, <1>10, <1>11 DEF DiskKey

LEMMA DiskFlowOther ==
  DiskFlow /\ (FinalKey \/ PollTimeout \/ Deadline \/ UNCHANGED vars)
    => DiskFlow'
<1> SUFFICES ASSUME DiskFlow, FinalKey \/ PollTimeout \/ Deadline \/ UNCHANGED vars
             PROVE  DiskFlow'
    OBVIOUS
<1> USE DEF DiskFlow, DiskScreensOnline, DiskScreens, SelectionConsistent
<1>1. UNCHANGED <<network_state, selected_interface>>
  BY BringUpFrame
<1>2. UNCHANGED diskVars /\ screen' \in {screen, "Reboot"}
  BY DEF FinalKey, AbortInstall, abort, Quit, RebootSystem, ExitInstaller,
     PowerOffEntry, PollTimeout, Deadline, CarrierDeadline, WpsDeadline, vars
<1> QED
  BY <1>1, <1>2

LEMMA DiskFlowAlways == Spec => []DiskFlow
<1>1. Init => DiskFlow
  BY DEF Init, DiskFlow, DiskScreensOnline, DiskScreens, SelectionConsistent
<1>2. TypeOK /\ DiskFlow /\ [Next]_vars => DiskFlow'
  BY DiskFlowNetwork, DiskFlowDisk, DiskFlowOther DEF Next
<1> QED
  BY <1>1, <1>2, TypeCorrect, PTL DEF Spec

\* No path through the screens, in either mode and with the ticks that run
\* after a key, reaches a disk screen without a network.
THEOREM DisksNeedNetwork == Spec => []DiskScreensOnline
BY DiskFlowAlways, PTL DEF DiskFlow

\* What is confirmed is always a RAID level with a target that fits it.
THEOREM SelectionSound == Spec => []SelectionConsistent
BY DiskFlowAlways, PTL DEF DiskFlow

----------------------------------------------------------------------------
(***************************************************************************)
(* Only proven configurations are persisted.                               *)
(***************************************************************************)
LEMMA PersistOnlyOnline ==
  ASSUME DiskFlow, Next, persisted' # persisted
  PROVE  /\ network_state = "Online"
         /\ persisted' = selected_interface
<1>1. CASE NetworkKey
  BY <1>1 DEF NetworkKey, SelectEasyMode, SelectAdvancedMode, SelectInterface,
     SelectWifiNetwork, SelectCountry, EnterWifiPassword, WpsAccept,
     WpsDecline, CancelWps, LeaveProgress, NetworkBack, ShowWifiQr,
     FinishNetworkOnly, PersistNetworkConfig
<1>2. CASE DiskKey
  <2>1. screen \in {"Confirm", "SshKeyImport"} /\ persisted' = selected_interface
    BY <1>2 DEF DiskKey, ToDisks, SelectRaidOption, SelectDiskGroup,
       BackFromConfirm, DiskBack, ConfirmInstall, ImportSshKeys, SkipSshKeys,
       BackFromSsh, InstallDone, RunInstall, InstallOn
  <2> QED
    BY <2>1 DEF DiskFlow, DiskScreensOnline, DiskScreens
<1>3. FinalKey \/ PollTimeout \/ advance_connectivity \/ Deadline =>
        UNCHANGED persisted
  BY DEF FinalKey, AbortInstall, abort, Quit, RebootSystem, ExitInstaller,
     PowerOffEntry, PollTimeout, Deadline, CarrierDeadline, WpsDeadline,
     advance_connectivity, EnableInterface, CheckPasses, CheckFails,
     WpsTimesOut, WpsCompletes, Connect, AlreadyHasIp, ConfigureDhcp, GoOnline,
     CarrierFound, CarrierWaitEnds, TickIdles
<1> QED
  BY <1>1, <1>2, <1>3 DEF Next

\* The installed system gets the configuration of an interface on which all
\* three checks passed.
THEOREM PersistsOnlyProven == Spec => PersistedIsProven
<1>1. DiskFlow /\ OnlineIsEarned /\ [Next]_vars =>
        [persisted' # persisted =>
           /\ network_state = "Online"
           /\ persisted' = selected_interface
           /\ {persisted'} \X Check \subseteq evidence]_vars
  BY PersistOnlyOnline DEF OnlineIsEarned
<1> QED
  BY <1>1, DiskFlowAlways, OnlineEarned, PTL DEF Spec, PersistedIsProven

----------------------------------------------------------------------------
(***************************************************************************)
(* The SSH keys that are imported are those asked for last.                *)
(***************************************************************************)
LEMMA SshFlowStep == TypeOK /\ DiskFlow /\ SshFlow /\ [Next]_vars => SshFlow'
<1> SUFFICES ASSUME TypeOK, DiskFlow, SshFlow, [Next]_vars PROVE SshFlow'
    OBVIOUS
<1> USE DEF SshFlow, SshKeysAskedFor, KeysQueued
<1>1. ASSUME UNCHANGED sshVars, screen # "SshKeyImport",
             screen = "InstallProgress" => ~should_quit,
             screen' \notin {"SshKeyImport"}
      PROVE  SshFlow'
  BY <1>1
<1>2. CASE NetworkKey
  <2>1. /\ screen \notin {"SshKeyImport", "InstallProgress"}
        /\ screen' \notin {"SshKeyImport", "InstallProgress"}
    BY <1>2 DEF NetworkKey, SelectEasyMode, SelectAdvancedMode,
       SelectInterface, SelectWifiNetwork, SelectCountry, EnterWifiPassword,
       WpsAccept, WpsDecline, CancelWps, LeaveProgress, NetworkBack, ShowWifiQr,
       FinishNetworkOnly, BringEthernetOnline, WaitForCarrier, EnableAndScan,
       AuthScreen
  <2> QED
    BY <1>1, <1>2, <2>1, InstallFrame
<1>3. CASE advance_connectivity
  <2>1. \/ UNCHANGED <<screen, should_quit>> /\ phase = "advance" /\ phase' = "poll"
        \/ /\ network_state # "Online"
           /\ screen' \in {"WifiSelect", "NetworkProgress", "NetworkConfig"}
    BY <1>3 DEF advance_connectivity, EnableInterface, CheckPasses, CheckFails,
       WpsTimesOut, WpsCompletes, Connect, AlreadyHasIp, ConfigureDhcp, GoOnline,
       CarrierFound, CarrierWaitEnds, TickIdles
  <2>2. UNCHANGED sshVars
    BY <1>3, InstallFrame
  <2> QED
    BY <2>1, <2>2 DEF DiskFlow, DiskScreensOnline, DiskScreens
<1>4. CASE PollTimeout
  BY <1>4 DEF PollTimeout
<1>5. CASE Deadline \/ UNCHANGED vars
  BY <1>5 DEF Deadline, CarrierDeadline, WpsDeadline, vars
<1>6. CASE FinalKey
  <2>1. /\ UNCHANGED sshVars /\ ~should_quit
        /\ \/ screen # "SshKeyImport" /\ screen' = screen
           \/ screen # "SshKeyImport" /\ screen' = "Reboot"
    BY <1>6 DEF FinalKey, AbortInstall, abort, Quit, RebootSystem,
       ExitInstaller, PowerOffEntry, TextScreens
  <2> QED
    BY <2>1
<1>7. CASE DiskKey
  <2>1. CASE ToDisks \/ SelectRaidOption \/ SelectDiskGroup \/ BackFromConfirm
             \/ DiskBack \/ InstallDone
    <3>1. /\ UNCHANGED sshVars /\ ~should_quit
          /\ screen # "SshKeyImport" /\ screen' # "SshKeyImport"
      BY <2>1 DEF ToDisks, SelectRaidOption, SelectDiskGroup, BackFromConfirm,
         DiskBack, InstallDone
    <3> QED
      BY <3>1
  <2>2. CASE ConfirmInstall
    <3>1. screen = "Confirm" /\ UNCHANGED ssh_keys
      BY <2>2 DEF ConfirmInstall
    <3>2. screen' = "SshKeyImport" => ssh_current_user_idx' < NumUsers
      BY <2>2, SessionAssumption DEF ConfirmInstall, RunInstall, InstallOn
    <3> QED
      BY <3>1, <3>2
  <2>3. CASE ImportSshKeys
    BY <2>3 DEF ImportSshKeys
  <2>4. CASE SkipSshKeys
    <3>1. TargetChosen
      BY <2>4, NoZero DEF SkipSshKeys, TargetChosen, DiskFlow,
         SelectionConsistent
    <3>2. \/ screen' = "SshKeyImport" /\ ssh_current_user_idx' < NumUsers
          \/ screen' = "InstallProgress" /\ should_quit' /\ phase' = "poll"
      BY <2>4, <3>1 DEF SkipSshKeys, RunInstall, InstallOn, on_progress
    <3> QED
      BY <3>2
  <2>5. CASE BackFromSsh
    <3>1. CASE ssh_current_user_idx > 0
      BY <2>5, <3>1, SessionAssumption DEF BackFromSsh, TypeOK
    <3>2. CASE ssh_current_user_idx = 0
      BY <2>5, <3>2 DEF BackFromSsh
    <3> QED
      BY <3>1, <3>2 DEF TypeOK
  <2> QED
    BY <1>7, <2>1, <2>2, <2>3, <2>4, <2>5 DEF DiskKey
<1> QED
  BY <1>2, <1>3, <1>4, <1>5, <1>6, <1>7 DEF Next

\* The key screen never runs past the last user, and going back to Confirm
\* leaves no key behind.
THEOREM KeysSound == Spec => []SshKeysAskedFor
<1>1. Init => SshFlow
  BY DEF Init, SshFlow, SshKeysAskedFor, KeysQueued
<1>2. SshFlow => SshKeysAskedFor
  BY DEF SshFlow
<1> QED
  BY <1>1, <1>2, TypeCorrect, DiskFlowAlways, SshFlowStep, PTL DEF Spec

----------------------------------------------------------------------------
(***************************************************************************)
(* What the installer does to the machine is on record.                    *)
(***************************************************************************)
LEMMA EffectsStep == EffectsAreRecorded /\ [Next]_vars => EffectsAreRecorded'
<1> SUFFICES ASSUME EffectsAreRecorded, [Next]_vars PROVE EffectsAreRecorded'
    OBVIOUS
<1> USE DEF EffectsAreRecorded
<1>1. ASSUME UNCHANGED <<recorded, disk_recorded>>,
             artifacts' \subseteq artifacts, mounted' => mounted
      PROVE  EffectsAreRecorded'
  BY <1>1
<1>2. CASE NetworkKey
  <2>1. CASE EnterWifiPassword
    <3>1. /\ artifacts' \subseteq artifacts \cup {<<"wpa", selected_interface>>}
          /\ recorded' = recorded \cup {<<"wpa", selected_interface>>}
          /\ UNCHANGED <<mounted, disk_recorded>>
      BY <2>1 DEF EnterWifiPassword, Authenticate
    <3> QED
      BY <3>1
  <2>2. CASE WpsAccept
    <3>1. /\ artifacts' \subseteq artifacts \cup {<<"wps", selected_interface>>}
          /\ UNCHANGED <<recorded, mounted, disk_recorded>>
      BY <2>2 DEF WpsAccept, StartWps
    <3> QED
      BY <3>1
  <2>3. CASE CancelWps
    BY <2>3, <1>1 DEF CancelWps
  <2>4. CASE ~(EnterWifiPassword \/ WpsAccept \/ CancelWps)
    <3>1. UNCHANGED <<recorded, artifacts, disk_recorded, mounted>>
      BY <1>2, <2>4 DEF NetworkKey, SelectEasyMode, SelectAdvancedMode,
         SelectInterface, SelectWifiNetwork, SelectCountry, WpsDecline,
         LeaveProgress, NetworkBack, ShowWifiQr, FinishNetworkOnly,
         BringEthernetOnline, WaitForCarrier, EnableAndScan
    <3> QED
      BY <3>1
  <2> QED
    BY <2>1, <2>2, <2>3, <2>4
<1>3. CASE DiskKey
  <2>1. UNCHANGED <<recorded, artifacts>> /\ (mounted' => mounted \/ disk_recorded')
        /\ (disk_recorded => disk_recorded')
    BY <1>3 DEF DiskKey, ToDisks, SelectRaidOption, SelectDiskGroup,
       BackFromConfirm, DiskBack, ConfirmInstall, ImportSshKeys, SkipSshKeys,
       BackFromSsh, InstallDone, RunInstall, InstallOn
  <2> QED
    BY <2>1
<1>4. CASE FinalKey
  <2>1. abort => artifacts' \subseteq artifacts /\ (mounted' => mounted)
    BY DEF abort, cleanup
  <2> QED
    BY <1>1, <1>4, <2>1 DEF FinalKey, AbortInstall, abort, Quit, RebootSystem,
       ExitInstaller, PowerOffEntry
<1>5. CASE advance_connectivity
  <2>1. CASE ConfigureDhcp \/ GoOnline
    <3>1. /\ artifacts' \subseteq artifacts \cup {<<"networkd", selected_interface>>}
          /\ recorded' = recorded \cup {<<"networkd", selected_interface>>}
          /\ UNCHANGED <<mounted, disk_recorded>>
      BY <2>1 DEF ConfigureDhcp, GoOnline
    <3> QED
      BY <3>1
  <2>2. CASE ~(ConfigureDhcp \/ GoOnline)
    <3>1. UNCHANGED <<recorded, artifacts, disk_recorded, mounted>>
      BY <1>5, <2>2 DEF advance_connectivity, EnableInterface, CheckPasses,
         CheckFails, WpsTimesOut, WpsCompletes, Connect, AlreadyHasIp,
         CarrierFound, CarrierWaitEnds, TickIdles
    <3> QED
      BY <3>1
  <2> QED
    BY <2>1, <2>2
<1>6. CASE PollTimeout \/ Deadline \/ UNCHANGED vars
  BY <1>6, <1>1 DEF PollTimeout, Deadline, CarrierDeadline, WpsDeadline, vars
<1> QED
  BY <1>2, <1>3, <1>4, <1>5, <1>6 DEF Next

\* The manifest names every DHCP configuration, password supplicant and
\* mount there is, so that cleanup() can find them.
THEOREM EffectsOnRecord == Spec => []EffectsAreRecorded
<1>1. Init => EffectsAreRecorded
  BY DEF Init, EffectsAreRecorded
<1> QED
  BY <1>1, EffectsStep, PTL DEF Spec

----------------------------------------------------------------------------
(***************************************************************************)
(* The wifi screens have what their handlers need.                         *)
(***************************************************************************)
LEMMA WifiFlowStep == WifiFlow /\ [Next]_vars => WifiFlow'
<1> SUFFICES ASSUME WifiFlow, [Next]_vars PROVE WifiFlow'
    OBVIOUS
<1> USE DEF WifiFlow, WifiScreensReady
<1>1. CASE NetworkKey
  <2>1. CASE SelectEasyMode
    BY <2>1 DEF SelectEasyMode, BringEthernetOnline, WaitForCarrier
  <2>2. CASE SelectInterface
    BY <2>2 DEF SelectInterface, BringEthernetOnline, EnableAndScan
  <2>3. CASE SelectWifiNetwork
    BY <2>3, WifiAssumption DEF SelectWifiNetwork, AuthScreen
  <2>4. CASE SelectCountry
    BY <2>4 DEF SelectCountry, AuthScreen
  <2>5. CASE EnterWifiPassword
    BY <2>5 DEF EnterWifiPassword
  <2>6. CASE WpsAccept \/ WpsDecline
    BY <2>6 DEF WpsAccept, WpsDecline
  <2>7. CASE CancelWps \/ LeaveProgress
    BY <2>7 DEF CancelWps, LeaveProgress
  <2>8. CASE SelectAdvancedMode \/ NetworkBack \/ ShowWifiQr \/ FinishNetworkOnly
    BY <2>8 DEF SelectAdvancedMode, NetworkBack, ShowWifiQr, FinishNetworkOnly
  <2> QED
    BY <1>1, <2>1, <2>2, <2>3, <2>4, <2>5, <2>6, <2>7, <2>8 DEF NetworkKey
<1>2. CASE DiskKey
  <2>1. screen' \in DiskScreens \cup {"NetworkProgress", "InstallModeSelect", "Reboot"}
    BY <1>2 DEF DiskKey, DiskScreens, ToDisks, SelectRaidOption,
       SelectDiskGroup, BackFromConfirm, DiskBack, ConfirmInstall,
       ImportSshKeys, SkipSshKeys, BackFromSsh, InstallDone, RunInstall,
       InstallOn
  <2>2. network_state \in {"WaitingForCarrier", "WpsWaiting"} =>
          screen \notin DiskScreens
    BY DEF DiskScreens
  <2>3. screen \in DiskScreens \/ network_state = "Online"
    BY <1>2 DEF DiskKey, DiskScreens, ToDisks, SelectRaidOption,
       SelectDiskGroup, BackFromConfirm, DiskBack, ConfirmInstall,
       ImportSshKeys, SkipSshKeys, BackFromSsh, InstallDone
  <2> QED
    BY <1>2, <2>1, <2>2, <2>3, BringUpFrame DEF DiskScreens
<1>3. CASE FinalKey \/ PollTimeout \/ Deadline \/ UNCHANGED vars
  <2>1. screen' \in {screen, "Reboot"}
    BY <1>3 DEF FinalKey, AbortInstall, abort, Quit, RebootSystem,
       ExitInstaller, PowerOffEntry, PollTimeout, Deadline, CarrierDeadline,
       WpsDeadline, vars
  <2> QED
    BY <2>1, <1>3, BringUpFrame
<1>4. CASE advance_connectivity
  BY <1>4 DEF advance_connectivity, EnableInterface, CheckPasses, CheckFails,
     Checking, Budget, AfterCheck, WpsTimesOut, WpsCompletes, Connect,
     AlreadyHasIp, ConfigureDhcp, GoOnline, CarrierFound, CarrierWaitEnds,
     TickIdles
<1> QED
  BY <1>1, <1>2, <1>3, <1>4 DEF Next

\* The wifi screens are shown for a wifi interface, and those past the list
\* for a network, even after a tick that changes the screen by itself.
THEOREM WifiScreensSound == Spec => []WifiScreensReady
<1>1. Init => WifiFlow
  BY DEF Init, WifiFlow, WifiScreensReady
<1>2. WifiFlow => WifiScreensReady
  BY DEF WifiFlow
<1> QED
  BY <1>1, <1>2, WifiFlowStep, PTL DEF Spec

----------------------------------------------------------------------------
\* The reconfigure flow of the getty reaches no disk screen and no disk.
THEOREM ReconfigureSparesDisks == Spec => []NetworkOnlyNeverInstalls
<1> USE DEF NetworkOnlyNeverInstalls, DiskScreens
<1>1. Init => NetworkOnlyNeverInstalls
  BY DEF Init
<1>2. NetworkOnlyNeverInstalls /\ [Next]_vars => NetworkOnlyNeverInstalls'
  <2> SUFFICES ASSUME NetworkOnlyNeverInstalls, [Next]_vars
               PROVE  NetworkOnlyNeverInstalls'
      OBVIOUS
  <2>1. CASE NetworkKey
    <3>1. screen' \notin DiskScreens
      BY <2>1 DEF NetworkKey, SelectEasyMode, SelectAdvancedMode,
         SelectInterface, SelectWifiNetwork, SelectCountry, EnterWifiPassword,
         WpsAccept, WpsDecline, CancelWps, LeaveProgress, NetworkBack,
         ShowWifiQr, FinishNetworkOnly, BringEthernetOnline, WaitForCarrier,
         EnableAndScan, AuthScreen
    <3> QED
      BY <2>1, <3>1, InstallFrame
  <2>2. CASE DiskKey
    BY <2>2 DEF DiskKey, ToDisks, SelectRaidOption, SelectDiskGroup,
       BackFromConfirm, DiskBack, ConfirmInstall, ImportSshKeys, SkipSshKeys,
       BackFromSsh, InstallDone
  <2>3. CASE FinalKey
    BY <2>3 DEF FinalKey, AbortInstall, abort, Quit, RebootSystem,
       ExitInstaller, PowerOffEntry
  <2>4. CASE advance_connectivity
    BY <2>4 DEF advance_connectivity, EnableInterface, CheckPasses, CheckFails,
       WpsTimesOut, WpsCompletes, Connect, AlreadyHasIp, ConfigureDhcp,
       GoOnline, CarrierFound, CarrierWaitEnds, TickIdles
  <2>5. CASE PollTimeout \/ Deadline \/ UNCHANGED vars
    BY <2>5 DEF PollTimeout, Deadline, CarrierDeadline, WpsDeadline, vars
  <2> QED
    BY <2>1, <2>2, <2>3, <2>4, <2>5 DEF Next
<1> QED
  BY <1>1, <1>2, PTL DEF Spec

----------------------------------------------------------------------------
(***************************************************************************)
(* The progress screen runs out of things to wait for.                     *)
(***************************************************************************)
\* Keys that lead to the progress screen begin a bring-up, or show again one
\* that is online.
LEMMA ProgressFlowStep == TypeOK /\ DiskFlow /\ ProgressFlow /\ [Next]_vars => ProgressFlow'
<1> SUFFICES ASSUME TypeOK, DiskFlow, ProgressFlow, [Next]_vars PROVE ProgressFlow'
    OBVIOUS
<1> USE DEF ProgressFlow
<1>1. CASE NetworkKey
  <2>1. CASE SelectEasyMode \/ SelectInterface
    BY <2>1, InterfaceAssumption DEF SelectEasyMode, SelectInterface, BringEthernetOnline,
       WaitForCarrier, EnableAndScan, Ethernet, Ifaces, None, TypeOK
  <2>2. CASE EnterWifiPassword
    BY <2>2 DEF EnterWifiPassword
  <2>3. CASE SelectWifiNetwork \/ SelectCountry
    BY <2>3 DEF SelectWifiNetwork, SelectCountry, AuthScreen
  <2>4. CASE NetworkBack \/ ShowWifiQr
    BY <2>4 DEF NetworkBack, ShowWifiQr, DiskFlow
  <2>5. CASE \/ SelectAdvancedMode \/ WpsAccept \/ WpsDecline \/ CancelWps \/ LeaveProgress
             \/ FinishNetworkOnly
    BY <2>5 DEF SelectAdvancedMode, WpsAccept, WpsDecline, CancelWps, LeaveProgress,
       FinishNetworkOnly
  <2> QED
    BY <1>1, <2>1, <2>2, <2>3, <2>4, <2>5 DEF NetworkKey
<1>2. CASE DiskKey
  <2>1. screen' # "WifiQrDisplay"
    BY <1>2 DEF DiskKey, ToDisks, SelectRaidOption, SelectDiskGroup, BackFromConfirm,
       DiskBack, ConfirmInstall, ImportSshKeys, SkipSshKeys, BackFromSsh, InstallDone,
       RunInstall, InstallOn
  <2>2. network_state = "Online" /\ selected_interface # None
    BY <1>2 DEF DiskKey, DiskFlow, DiskScreensOnline, DiskScreens, ToDisks,
       SelectRaidOption, SelectDiskGroup, BackFromConfirm, DiskBack, ConfirmInstall,
       ImportSshKeys, SkipSshKeys, BackFromSsh, InstallDone
  <2> QED
    BY <1>2, <2>1, <2>2, BringUpFrame
<1>3. CASE FinalKey \/ PollTimeout \/ Deadline \/ UNCHANGED vars
  <2>1. screen' \in {screen, "Reboot"}
    BY <1>3 DEF FinalKey, AbortInstall, abort, Quit, RebootSystem, ExitInstaller,
       PowerOffEntry, PollTimeout, Deadline, CarrierDeadline, WpsDeadline, vars
  <2> QED
    BY <2>1, <1>3, BringUpFrame
<1>4. CASE advance_connectivity
  <2>1. CASE CarrierFound
    BY <2>1, InterfaceAssumption DEF CarrierFound, TypeOK, Ethernet, Ifaces, None
  <2>2. CASE advance_connectivity /\ ~CarrierFound
    BY <2>2 DEF advance_connectivity, EnableInterface, CheckPasses, CheckFails, Checking,
       Budget, AfterCheck, WpsTimesOut, WpsCompletes, Connect, AlreadyHasIp, ConfigureDhcp,
       GoOnline, CarrierWaitEnds, TickIdles
  <2> QED
    BY <1>4, <2>1, <2>2
<1> QED
  BY <1>1, <1>2, <1>3, <1>4 DEF Next

\* What is left, state by state.
LEMMA LeftIs ==
  ASSUME screen = "NetworkProgress"
  PROVE  /\ is_terminal => StepsLeft = 0
         /\ network_state = "CheckingDns" => StepsLeft = 1
         /\ network_state = "CheckingInternet" =>
              StepsLeft = DNS_MAX_RETRIES + 1 - connectivity_retries
         /\ network_state = "CheckingRouter" =>
              StepsLeft = DNS_MAX_RETRIES + MAX_RETRIES + 1 - connectivity_retries
         /\ network_state = "IpAssigned" => StepsLeft = AfterDhcp - connectivity_retries
         /\ network_state = "DhcpConfiguring" => StepsLeft = AfterDhcp + 1
         /\ network_state = "Connected" => StepsLeft = AfterDhcp + 2
         /\ network_state = "DeviceEnabled" =>
              StepsLeft = AfterDhcp + 1 + LINK_MAX_RETRIES - connectivity_retries
         /\ network_state = "Offline" => StepsLeft = AfterDhcp + 2 + LINK_MAX_RETRIES
         /\ network_state = "WaitingForCarrier" =>
              StepsLeft = AfterDhcp + IF carrier_wait_start = "running" THEN 3 ELSE 2
BY DEF StepsLeft, is_terminal

LEMMA LeftIsNext ==
  ASSUME screen' = "NetworkProgress"
  PROVE  /\ is_terminal' => StepsLeft' = 0
         /\ network_state' = "CheckingDns" => StepsLeft' = 1
         /\ network_state' = "CheckingInternet" =>
              StepsLeft' = DNS_MAX_RETRIES + 1 - connectivity_retries'
         /\ network_state' = "CheckingRouter" =>
              StepsLeft' = DNS_MAX_RETRIES + MAX_RETRIES + 1 - connectivity_retries'
         /\ network_state' = "IpAssigned" => StepsLeft' = AfterDhcp - connectivity_retries'
         /\ network_state' = "DhcpConfiguring" => StepsLeft' = AfterDhcp + 1
         /\ network_state' = "DeviceEnabled" =>
              StepsLeft' = AfterDhcp + 1 + LINK_MAX_RETRIES - connectivity_retries'
         /\ network_state' = "WaitingForCarrier" =>
              StepsLeft' = AfterDhcp + IF carrier_wait_start' = "running" THEN 3 ELSE 2
BY DEF StepsLeft, is_terminal, AfterDhcp

LEMMA AfterDhcpIs ==
  /\ AfterDhcp = 2 * MAX_RETRIES + DNS_MAX_RETRIES + 1
  /\ AfterDhcp \in Nat /\ MAX_RETRIES \in Nat \ {0} /\ DNS_MAX_RETRIES \in Nat \ {0}
  /\ LINK_MAX_RETRIES \in Nat \ {0}
BY RetryAssumption DEF AfterDhcp

LEMMA ProgressBounded ==
  TypeOK /\ BudgetLeft /\ ProgressFlow =>
    /\ StepsLeft \in 0 .. Longest
    /\ screen = "NetworkProgress" /\ StepsLeft = 0 => is_terminal
<1> SUFFICES ASSUME TypeOK, BudgetLeft, ProgressFlow
             PROVE  /\ StepsLeft \in 0 .. Longest
                    /\ screen = "NetworkProgress" /\ StepsLeft = 0 => is_terminal
    OBVIOUS
<1> USE AfterDhcpIs DEF Longest
<1>1. CASE screen # "NetworkProgress" \/ is_terminal
  BY <1>1 DEF StepsLeft
<1>2. CASE screen = "NetworkProgress" /\ network_state \in Checking
  BY <1>2, LeftIs DEF BudgetLeft, Checking, Budget, TypeOK
<1>3. CASE screen = "NetworkProgress" /\ ~is_terminal /\ network_state \notin Checking
  <2>1. network_state \in {"CheckingDns", "DhcpConfiguring", "Connected", "Offline",
                           "WaitingForCarrier"}
    BY <1>3 DEF ProgressFlow, TypeOK, NetworkState, Checking, Budget, is_terminal
  <2> QED
    BY <1>3, <2>1, LeftIs
<1> QED
  BY <1>1, <1>2, <1>3

LEMMA ProgressTick ==
  ASSUME TypeOK, BudgetLeft, ProgressFlow, advance_connectivity,
         screen = "NetworkProgress", screen' = "NetworkProgress"
  PROVE  StepsLeft' < StepsLeft \/ (Waiting /\ StepsLeft' = StepsLeft)
<1> USE AfterDhcpIs, LeftIs, LeftIsNext
<1>1. CASE EnableInterface
  BY <1>1 DEF EnableInterface, is_terminal
<1>2. CASE CheckPasses
  <2>1. PICK state \in Checking :
          /\ network_state = state /\ network_state' = AfterCheck[state]
          /\ connectivity_retries' = 0
    BY <1>2 DEF CheckPasses
  <2>2. connectivity_retries \in Nat /\ connectivity_retries < Budget[state]
    BY <2>1 DEF BudgetLeft, TypeOK
  <2> QED
    BY <2>1, <2>2 DEF Checking, Budget, AfterCheck
<1>3. CASE CheckFails
  <2>1. PICK state \in Checking :
          /\ network_state = state
          /\ connectivity_retries' = connectivity_retries + 1
          /\ network_state' = IF connectivity_retries' >= Budget[state] THEN "Error" ELSE state
    BY <1>3 DEF CheckFails
  <2>2. connectivity_retries \in Nat /\ connectivity_retries < Budget[state]
    BY <2>1 DEF BudgetLeft, TypeOK
  <2>3. CASE network_state' = "Error"
    BY <2>1, <2>2, <2>3 DEF Checking, Budget, is_terminal
  <2>4. CASE network_state' = state
    BY <2>1, <2>2, <2>4 DEF Checking, Budget
  <2> QED
    BY <2>1, <2>3, <2>4
<1>4. CASE Connect \/ AlreadyHasIp \/ ConfigureDhcp
  BY <1>4 DEF Connect, AlreadyHasIp, ConfigureDhcp, is_terminal
<1>5. CASE GoOnline
  BY <1>5 DEF GoOnline, is_terminal
<1>6. CASE CarrierFound
  BY <1>6 DEF CarrierFound
<1>7. CASE TickIdles
  BY <1>7 DEF TickIdles, ProgressFlow, Waiting, StepsLeft, is_terminal
<1>8. CASE WpsTimesOut \/ WpsCompletes \/ CarrierWaitEnds
  BY <1>8 DEF WpsTimesOut, WpsCompletes, CarrierWaitEnds, ProgressFlow
<1> QED
  BY <1>1, <1>2, <1>3, <1>4, <1>5, <1>6, <1>7, <1>8 DEF advance_connectivity

LEMMA TimerFrame ==
  DiskKey \/ FinalKey \/ PollTimeout \/ WpsDeadline => UNCHANGED carrier_wait_start
BY DEF DiskKey, ToDisks, SelectRaidOption, SelectDiskGroup, BackFromConfirm, DiskBack,
   ConfirmInstall, ImportSshKeys, SkipSshKeys, BackFromSsh, InstallDone, FinalKey,
   AbortInstall, Quit, RebootSystem, ExitInstaller, PowerOffEntry, abort, PollTimeout,
   WpsDeadline

LEMMA ProgressStep ==
  ASSUME TypeOK, BudgetLeft, ProgressFlow, Next, StepsLeft' \in Nat,
         screen = "NetworkProgress", screen' = "NetworkProgress"
  PROVE  /\ StepsLeft' <= StepsLeft
         /\ advance_connectivity /\ ~Waiting => StepsLeft' < StepsLeft
         /\ CarrierDeadline => StepsLeft' < StepsLeft
<1>1. StepsLeft \in Nat
  BY ProgressBounded DEF Longest
<1>2. CASE advance_connectivity
  <2>1. ~CarrierDeadline
    BY <1>2 DEF CarrierDeadline, advance_connectivity, EnableInterface, CheckPasses,
       CheckFails, WpsTimesOut, WpsCompletes, Connect, AlreadyHasIp, ConfigureDhcp, GoOnline,
       CarrierFound, CarrierWaitEnds, TickIdles
  <2>2. CASE StepsLeft' < StepsLeft
    BY <1>1, <2>1, <2>2
  <2>3. CASE Waiting /\ StepsLeft' = StepsLeft
    BY <1>1, <2>1, <2>3
  <2> QED
    BY <1>2, <2>2, <2>3, ProgressTick
<1>3. CASE CarrierDeadline /\ ~advance_connectivity
  <2>1. StepsLeft = AfterDhcp + 3 /\ StepsLeft' = AfterDhcp + 2
    BY <1>3, LeftIs, LeftIsNext DEF CarrierDeadline
  <2> QED
    BY <1>3, <2>1, AfterDhcpIs
<1>4. CASE /\ NetworkKey \/ DiskKey \/ FinalKey \/ PollTimeout \/ WpsDeadline
           /\ ~advance_connectivity /\ ~CarrierDeadline
  <2>1. UNCHANGED <<network_state, connectivity_retries, carrier_wait_start>>
    <3>1. CASE NetworkKey
      BY <3>1 DEF NetworkKey, SelectEasyMode, SelectAdvancedMode, SelectInterface,
         SelectWifiNetwork, SelectCountry, EnterWifiPassword, WpsAccept, WpsDecline, CancelWps,
         LeaveProgress, NetworkBack, ShowWifiQr, FinishNetworkOnly
    <3>2. CASE DiskKey \/ FinalKey \/ PollTimeout \/ WpsDeadline
      BY <3>2, TimerFrame, BringUpFrame DEF Deadline
    <3> QED
      BY <1>4, <3>1, <3>2
  <2>2. StepsLeft' = StepsLeft
    BY <2>1 DEF StepsLeft, is_terminal
  <2> QED
    BY <1>1, <1>4, <2>2
<1> QED
  BY <1>2, <1>3, <1>4 DEF Next, Deadline

\* For any interfaces, networks and budgets: while the progress screen is shown,
\* what it may still wait for is bounded, no key, tick or deadline adds to it,
\* and each tick takes from it, but for those while a carrier is waited for,
\* which the deadline ends; with nothing left the bring-up is over.  This is what
\* BringUpSettles needs besides the fairness of ticks and deadline.
THEOREM ProgressSettles ==
  Spec => /\ [](StepsLeft \in 0 .. Longest)
          /\ [](screen = "NetworkProgress" /\ StepsLeft = 0 => is_terminal)
          /\ ProgressCounts
<1>1. Init => ProgressFlow /\ BudgetLeft
  BY DEF Init, ProgressFlow, BudgetLeft, Checking, Budget
<1>2. TypeOK /\ BudgetLeft /\ ProgressFlow =>
        /\ StepsLeft \in 0 .. Longest
        /\ screen = "NetworkProgress" /\ StepsLeft = 0 => is_terminal
  BY ProgressBounded
<1>3. TypeOK /\ BudgetLeft /\ ProgressFlow /\ [Next]_vars
        /\ (StepsLeft \in 0 .. Longest)' =>
        [screen = "NetworkProgress" /\ screen' = "NetworkProgress" =>
           /\ StepsLeft' <= StepsLeft
           /\ advance_connectivity /\ ~Waiting => StepsLeft' < StepsLeft
           /\ CarrierDeadline => StepsLeft' < StepsLeft]_vars
  <2>1. 0 .. Longest' \subseteq Nat
    BY AfterDhcpIs DEF Longest, AfterDhcp
  <2> QED
    BY <2>1, ProgressStep
<1> QED
  BY <1>1, <1>2, <1>3, TypeCorrect, DiskFlowAlways, BudgetStep, ProgressFlowStep, PTL
     DEF Spec, ProgressCounts
=============================================================================
