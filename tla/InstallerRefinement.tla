------------------------- MODULE InstallerRefinement -------------------------
(***************************************************************************)
(* The installer implements Provisioning: every step of it shows a check,  *)
(* proves an interface, starts over, writes, saves, ends, or changes       *)
(* nothing the session promises about.  And it implements BringUp: every   *)
(* step begins or leaves a bring-up, or ends or retries a stage of it, or  *)
(* changes nothing of it.                                                  *)
(***************************************************************************)
EXTENDS InstallerProofs

USE DEF appVars, bringUpVars, choiceVars, timerVars, linkVars, wpaVars,
        networkVars, diskVars, sshVars, volumeVars, installVars,
        Key, Iterating, MoveTo, Tick, TickKeepsApp, Advancing,
        record, is_online, IsUser, WantsDisks

\* Nothing but a key on Confirm or on the key screen writes, and neither is
\* reachable again.
LEMMA AfterInstallStep ==
  DiskFlow /\ AfterInstall /\ [Next]_vars => AfterInstall'
<1> SUFFICES ASSUME DiskFlow, AfterInstall, [Next]_vars PROVE AfterInstall'
    OBVIOUS
<1> USE DEF AfterInstall
<1>1. CASE NetworkKey
  <2>1. screen \notin {"InstallProgress", "Reboot"} /\ UNCHANGED disk_recorded
    BY <1>1 DEF NetworkKey, SelectEasyMode, SelectAdvancedMode,
       SelectInterface, SelectWifiNetwork, SelectCountry, EnterWifiPassword,
       WpsAccept, WpsDecline, CancelWps, LeaveProgress, NetworkBack,
       ShowWifiQr, FinishNetworkOnly
  <2> QED
    BY <2>1
<1>2. CASE DiskKey
  <2>1. UNCHANGED network_state
    BY <1>2, BringUpFrame
  <2>2. CASE ConfirmInstall \/ SkipSshKeys
    BY <2>1, <2>2 DEF ConfirmInstall, SkipSshKeys, RunInstall, InstallOn,
       DiskFlow, DiskScreensOnline, DiskScreens
  <2>3. CASE ToDisks \/ SelectRaidOption \/ SelectDiskGroup \/ BackFromConfirm
             \/ DiskBack \/ ImportSshKeys \/ BackFromSsh
    BY <2>3 DEF ToDisks, SelectRaidOption, SelectDiskGroup, BackFromConfirm,
       DiskBack, ImportSshKeys, BackFromSsh
  <2>4. CASE InstallDone
    BY <2>1, <2>4 DEF InstallDone
  <2> QED
    BY <1>2, <2>2, <2>3, <2>4 DEF DiskKey
<1>3. CASE advance_connectivity
  <2>1. CASE TickIdles
    BY <2>1 DEF TickIdles
  <2>2. network_state = "Online" => TickIdles
    BY <1>3 DEF advance_connectivity, EnableInterface, CheckPasses, CheckFails,
       Checking, Budget, WpsTimesOut, WpsCompletes, Connect, AlreadyHasIp,
       ConfigureDhcp, GoOnline, CarrierFound, CarrierWaitEnds
  <2>3. UNCHANGED disk_recorded
    BY <1>3, InstallFrame
  <2> QED
    BY <2>1, <2>2, <2>3
<1>4. CASE FinalKey \/ PollTimeout \/ Deadline \/ UNCHANGED vars
  <2>1. UNCHANGED network_state
    BY <1>4, BringUpFrame
  <2>2. UNCHANGED disk_recorded /\ screen' \in {screen, "Reboot"}
    BY <1>4 DEF FinalKey, AbortInstall, abort, Quit, RebootSystem,
       ExitInstaller, PowerOffEntry, PollTimeout, Deadline, CarrierDeadline,
       WpsDeadline, vars
  <2> QED
    BY <2>1, <2>2
<1> QED
  BY <1>1, <1>2, <1>3, <1>4 DEF Next

LEMMA AfterInstallAlways == Spec => []AfterInstall
<1>1. Init => AfterInstall
  BY DEF Init, AfterInstall
<1> QED
  BY <1>1, AfterInstallStep, DiskFlowAlways, PTL DEF Spec

----------------------------------------------------------------------------
\* A step that keeps the mapped state is a stutter.
LEMMA Stutter ==
  ASSUME UNCHANGED <<network_state, selected_interface, evidence,
                     disk_recorded, persisted, final_state>>
  PROVE  UNCHANGED Session!vars
BY DEF Session!vars

\* The network screens start over, save, or change nothing that is mapped.
LEMMA NetworkKeySession ==
  ASSUME TypeOK, DiskFlow, AfterInstall, NetworkKey
  PROVE  [Session!Next]_Session!vars
<1>1. ~disk_recorded
  BY DEF AfterInstall, NetworkKey, SelectEasyMode, SelectAdvancedMode,
     SelectInterface, SelectWifiNetwork, SelectCountry, EnterWifiPassword,
     WpsAccept, WpsDecline, CancelWps, LeaveProgress, NetworkBack,
     ShowWifiQr, FinishNetworkOnly
<1>2. UNCHANGED <<disk_recorded, final_state>>
  BY InstallFrame
<1>3. \/ UNCHANGED <<network_state, selected_interface, evidence, persisted>>
      \/ /\ network_state' # "Online"
         /\ evidence' \in {evidence, {}}
         /\ UNCHANGED persisted
      \/ FinishNetworkOnly
  BY DEF NetworkKey, SelectEasyMode, SelectAdvancedMode,
     SelectInterface, SelectWifiNetwork, SelectCountry, EnterWifiPassword,
     WpsAccept, WpsDecline, CancelWps, LeaveProgress, NetworkBack,
     ShowWifiQr, BringEthernetOnline, WaitForCarrier, EnableAndScan
<1>4. CASE UNCHANGED <<network_state, selected_interface, evidence, persisted>>
  BY <1>2, <1>4, Stutter
<1>5. CASE /\ network_state' # "Online"
           /\ evidence' \in {evidence, {}}
           /\ UNCHANGED persisted
  BY <1>1, <1>2, <1>5 DEF Session!Next, Session!StartOver
<1>6. CASE FinishNetworkOnly
  <2>1. /\ network_state = "Online" /\ selected_interface # None
        /\ UNCHANGED <<network_state, selected_interface, evidence>>
        /\ persisted' \in {persisted, selected_interface}
    BY <1>6 DEF FinishNetworkOnly, PersistNetworkConfig, DiskFlow
  <2>2. CASE persisted' = persisted
    BY <1>2, <2>1, <2>2, Stutter
  <2>3. CASE persisted' = selected_interface
    BY <1>2, <2>1, <2>3 DEF Session!Next, Session!Save
  <2> QED
    BY <2>1, <2>2, <2>3
<1> QED
  BY <1>3, <1>4, <1>5, <1>6

\* A tick shows a check, proves an interface, or changes nothing mapped.
LEMMA TickSession ==
  ASSUME TypeOK, EvidenceSoFar, advance_connectivity
  PROVE  [Session!Next]_Session!vars
<1>1. UNCHANGED installVars
  BY DEF advance_connectivity, EnableInterface, CheckPasses, CheckFails,
     WpsTimesOut, WpsCompletes, Connect, AlreadyHasIp, ConfigureDhcp, GoOnline,
     CarrierFound, CarrierWaitEnds, TickIdles
<1>2. CASE TickIdles
  BY <1>1, <1>2, Stutter DEF TickIdles
<1>3. CASE CheckPasses
  <2>1. PICK state \in Checking :
          /\ network_state = state
          /\ selected_interface # None
          /\ network_state' = AfterCheck[state]
          /\ evidence' = evidence \cup ({selected_interface} \X Shows[state])
    BY <1>3 DEF CheckPasses
  <2>2. network_state # "Online" /\ network_state' # "Online"
    BY <2>1 DEF Checking, Budget, AfterCheck
  <2>3. selected_interface \in Ifaces
    BY <2>1 DEF TypeOK
  <2>4. CASE state = "DeviceEnabled"
    <3>1. evidence' = evidence
      BY <2>1, <2>4 DEF Shows
    <3> QED
      BY <1>1, <2>2, <3>1 DEF Session!vars
  <2>5. CASE state # "DeviceEnabled"
    <3>1. PICK c \in Check : Shows[state] = {c}
      BY <2>1, <2>5 DEF Checking, Budget, Shows, Check
    <3>2. evidence' = evidence \cup {<<selected_interface, c>>}
      BY <2>1, <3>1
    <3> QED
      BY <1>1, <2>2, <2>3, <3>2 DEF Session!Next, Session!Show
  <2> QED
    BY <2>4, <2>5
<1>4. CASE GoOnline
  <2>1. /\ network_state = "CheckingDns" /\ network_state' = "Online"
        /\ selected_interface # None
        /\ UNCHANGED <<selected_interface, evidence>>
    BY <1>4 DEF GoOnline
  <2>2. {selected_interface} \X Check \subseteq evidence
    BY <2>1 DEF EvidenceSoFar, Shown, Check
  <2>3. selected_interface \in Ifaces
    BY <2>1 DEF TypeOK
  <2> QED
    BY <1>1, <2>1, <2>2, <2>3 DEF Session!Next, Session!Prove
<1>5. CASE EnableInterface \/ CheckFails \/ WpsTimesOut \/ WpsCompletes
           \/ Connect \/ AlreadyHasIp \/ ConfigureDhcp \/ CarrierFound
           \/ CarrierWaitEnds
  <2>1. /\ network_state # "Online" /\ network_state' # "Online"
        /\ UNCHANGED evidence
    BY <1>5 DEF EnableInterface, CheckFails, Checking, Budget, WpsTimesOut,
       WpsCompletes, Connect, AlreadyHasIp, ConfigureDhcp, CarrierFound,
       CarrierWaitEnds
  <2> QED
    BY <1>1, <2>1 DEF Session!vars
<1> QED
  BY <1>2, <1>3, <1>4, <1>5 DEF advance_connectivity

\* The disk screens write, once, or change nothing that is mapped.
LEMMA DiskKeySession ==
  ASSUME DiskFlow, AfterInstall, NetworkOnlyNeverInstalls, DiskKey
  PROVE  [Session!Next]_Session!vars
<1>1. UNCHANGED <<network_state, selected_interface, evidence>>
  BY BringUpFrame
<1>2. CASE UNCHANGED <<disk_recorded, persisted, final_state>>
  BY <1>1, <1>2, Stutter
<1>3. CASE (ConfirmInstall \/ SkipSshKeys) /\ InstallOn
  <2>1. screen \in {"Confirm", "SshKeyImport"}
    BY <1>3 DEF ConfirmInstall, SkipSshKeys
  <2>2. network_state = "Online" /\ selected_interface # None
    BY <2>1 DEF DiskFlow, DiskScreensOnline, DiskScreens
  <2>3. ~disk_recorded /\ ~NetworkOnly
    BY <2>1 DEF AfterInstall, NetworkOnlyNeverInstalls, DiskScreens
  <2>4. /\ disk_recorded' = TRUE
        /\ persisted' \in {persisted, selected_interface}
    BY <1>3 DEF InstallOn
  <2> QED
    BY <1>1, <2>2, <2>3, <2>4 DEF Session!Next, Session!Write
<1>4. \/ UNCHANGED <<disk_recorded, persisted, final_state>>
      \/ (ConfirmInstall \/ SkipSshKeys) /\ InstallOn
  BY DEF DiskKey, ToDisks, SelectRaidOption, SelectDiskGroup, BackFromConfirm,
     DiskBack, ConfirmInstall, ImportSshKeys, SkipSshKeys, BackFromSsh,
     InstallDone, RunInstall
<1> QED
  BY <1>2, <1>3, <1>4

\* The final keys end the session; the rest is not seen by it.
LEMMA OtherSession ==
  ASSUME FinalKey \/ PollTimeout \/ Deadline \/ UNCHANGED vars
  PROVE  [Session!Next]_Session!vars
<1>1. UNCHANGED <<network_state, selected_interface, evidence>>
  BY BringUpFrame
<1>2. /\ UNCHANGED <<disk_recorded, persisted>>
      /\ final_state' = final_state \/ final_state' # "Installed"
  BY DEF FinalKey, AbortInstall, abort, Quit, RebootSystem, ExitInstaller,
     PowerOffEntry, PollTimeout, Deadline, CarrierDeadline, WpsDeadline, vars
<1>3. CASE final_state' = final_state
  BY <1>1, <1>2, <1>3, Stutter
<1>4. CASE final_state' # "Installed"
  BY <1>1, <1>2, <1>4 DEF Session!Next, Session!End
<1> QED
  BY <1>2, <1>3, <1>4

\* The installer, for any machine and any sequence of keys, results and
\* deadlines, implements the provisioning session.
THEOREM InstallerProvisions == Spec => Provisions
<1>1. Init => Session!Init
  BY DEF Init, Session!Init
<1>2. TypeOK /\ DiskFlow /\ AfterInstall /\ EvidenceSoFar
        /\ NetworkOnlyNeverInstalls /\ [Next]_vars
      => [Session!Next]_Session!vars
  <2> SUFFICES ASSUME TypeOK, DiskFlow, AfterInstall, EvidenceSoFar,
                      NetworkOnlyNeverInstalls, [Next]_vars
               PROVE  [Session!Next]_Session!vars
      OBVIOUS
  <2>1. CASE NetworkKey
    BY <2>1, NetworkKeySession
  <2>2. CASE advance_connectivity
    BY <2>2, TickSession
  <2>3. CASE DiskKey
    BY <2>3, DiskKeySession
  <2>4. CASE FinalKey \/ PollTimeout \/ Deadline \/ UNCHANGED vars
    BY <2>4, OtherSession
  <2> QED
    BY <2>1, <2>2, <2>3, <2>4 DEF Next
<1>3. Init => EvidenceSoFar
  BY DEF Init, EvidenceSoFar, Shown
<1> QED
  BY <1>1, <1>2, <1>3, TypeCorrect, DiskFlowAlways, AfterInstallAlways,
     EvidenceStep, ReconfigureSparesDisks, PTL
     DEF Spec, Provisions, Session!Spec
----------------------------------------------------------------------------
\* A step that keeps the state and its failures keeps the stage.
LEMMA SameStage ==
  ASSUME UNCHANGED <<network_state, connectivity_retries>>
  PROVE  UNCHANGED Ticks!vars
BY DEF Ticks!vars, Stage

\* A key of the network screens begins a bring-up or leaves it, or the stage
\* stays.
LEMMA NetworkKeyTicks ==
  ASSUME NetworkKey
  PROVE  [Ticks!Next]_(Ticks!vars)
<1>1. \/ UNCHANGED <<network_state, connectivity_retries>>
      \/ network_state' = "Offline"
      \/ network_state' = "DeviceEnabled" /\ connectivity_retries' = 0
      \/ network_state' \in {"WaitingForCarrier", "Scanning", "NetworkSelected", "WpsWaiting",
                            "Connected"}
  BY DEF NetworkKey, SelectEasyMode, SelectAdvancedMode, SelectInterface, SelectWifiNetwork,
     SelectCountry, EnterWifiPassword, WpsAccept, WpsDecline, CancelWps, LeaveProgress,
     NetworkBack, ShowWifiQr, FinishNetworkOnly, BringEthernetOnline, WaitForCarrier,
     EnableAndScan
<1>2. CASE network_state' = "Offline"
  BY <1>2 DEF Stage, Checking, Budget, Ticks!Next, Ticks!Begin
<1>3. CASE network_state' = "DeviceEnabled" /\ connectivity_retries' = 0
  BY <1>3 DEF Stage, Ticks!Next, Ticks!Begin
<1>4. CASE network_state' \in {"WaitingForCarrier", "Scanning", "NetworkSelected",
                              "WpsWaiting", "Connected"}
  BY <1>4 DEF Stage, Checking, Budget, Ticks!Next, Ticks!Leave
<1> QED
  BY <1>1, <1>2, <1>3, <1>4, SameStage

\* A tick ends a stage, retries it, or begins with a link.
LEMMA TickTicks ==
  ASSUME TypeOK, advance_connectivity
  PROVE  [Ticks!Next]_(Ticks!vars)
<1> USE RetryAssumption DEF Stage, Checking, Budget, TypeOK
<1>1. CASE EnableInterface
  BY <1>1 DEF EnableInterface, Ticks!Next, Ticks!Pass, Ticks!GiveUp, Ticks!After
<1>2. CASE CheckPasses
  <2>1. PICK state \in Checking :
          /\ network_state = state /\ network_state' = AfterCheck[state]
          /\ connectivity_retries' = 0
    BY <1>2 DEF CheckPasses
  <2>2. Stage \in DOMAIN Ticks!After /\ Stage' = Ticks!After[Stage]
    BY <2>1 DEF AfterCheck, Ticks!After
  <2> QED
    BY <2>1, <2>2 DEF Ticks!Next, Ticks!Pass
<1>3. CASE CheckFails
  <2>1. PICK state \in Checking :
          /\ network_state = state
          /\ connectivity_retries' = connectivity_retries + 1
          /\ network_state' = IF connectivity_retries' >= Budget[state] THEN "Error" ELSE state
    BY <1>3 DEF CheckFails
  <2>2. CASE connectivity_retries' >= Budget[state]
    BY <2>1, <2>2 DEF Ticks!Next, Ticks!GiveUp
  <2>3. CASE ~(connectivity_retries' >= Budget[state])
    BY <2>1, <2>3 DEF Ticks!Next, Ticks!Fail
  <2> QED
    BY <2>2, <2>3
<1>4. CASE WpsTimesOut \/ WpsCompletes
  BY <1>4 DEF WpsTimesOut, WpsCompletes, Ticks!vars
<1>5. CASE Connect \/ CarrierFound
  BY <1>5 DEF Connect, CarrierFound, Ticks!Next, Ticks!BeginLinked
<1>6. CASE AlreadyHasIp \/ ConfigureDhcp
  BY <1>6 DEF AlreadyHasIp, ConfigureDhcp, Ticks!Next, Ticks!Pass, Ticks!GiveUp, Ticks!After
<1>7. CASE GoOnline
  BY <1>7 DEF GoOnline, Ticks!Next, Ticks!Pass, Ticks!After
<1>8. CASE CarrierWaitEnds
  BY <1>8 DEF CarrierWaitEnds, Ticks!Next, Ticks!Begin
<1>9. CASE TickIdles
  BY <1>9, SameStage DEF TickIdles
<1> QED
  BY <1>1, <1>2, <1>3, <1>4, <1>5, <1>6, <1>7, <1>8, <1>9 DEF advance_connectivity

\* For any machine and any budgets, each bring-up of the installer is one step
\* per stage, with the budget of that stage, whatever else the session does.
THEOREM InstallerBringsUp == Spec => BringsUp
<1>1. Init => Ticks!Init
  BY DEF Init, Ticks!Init, Stage, Checking, Budget
<1>2. TypeOK /\ [Next]_vars => [Ticks!Next]_(Ticks!vars)
  <2> SUFFICES ASSUME TypeOK, [Next]_vars PROVE [Ticks!Next]_(Ticks!vars)
    OBVIOUS
  <2>1. CASE DiskKey \/ FinalKey \/ PollTimeout \/ Deadline \/ UNCHANGED vars
    BY <2>1, BringUpFrame, SameStage
  <2> QED
    BY <2>1, NetworkKeyTicks, TickTicks DEF Next
<1> QED
  BY <1>1, <1>2, TypeCorrect, PTL DEF Spec, BringsUp, Ticks!Spec
=============================================================================
