---------------------------- MODULE NetworkSetup ----------------------------
(***************************************************************************)
(* The network half of InstallerStateMachine: the screens from the mode    *)
(* question to NetworkProgress, each a key handler, and the bring-up       *)
(* sequence that advance_connectivity drives one step per tick.  Results   *)
(* of the executor's operations are nondeterministic; what they leave on   *)
(* the machine is what the initrd executor leaves.                         *)
(***************************************************************************)
EXTENDS InstallerState

\* bring_ethernet_online(i), on the interface just selected.
BringEthernetOnline(i) ==
  /\ selected_interface' = i
  /\ network_state' = IF i \in has_carrier THEN "DeviceEnabled" ELSE "Offline"
  /\ connectivity_retries' = 0
  /\ evidence' = {}
  /\ MoveTo("NetworkProgress")
  /\ UNCHANGED <<selected_ssid, wifi_country,
                 timerVars, linkVars, wpaVars>>

\* No cable yet: enable every ethernet interface and poll them all.
\* `ok' are those that could be enabled.
WaitForCarrier(ok) ==
  /\ enabled' = enabled \cup ok
  /\ up' = up \cup Ethernet
  /\ carrier_candidates' = Ethernet
  /\ carrier_wait_start' = "running"
  /\ network_state' = "WaitingForCarrier"
  /\ evidence' = {}
  /\ MoveTo("NetworkProgress")
  /\ UNCHANGED <<connectivity_retries, choiceVars, wps_start_time,
                 has_carrier, wpaVars>>

SelectEasyMode ==
  /\ Key("InstallModeSelect")
  /\ install_mode' = "Easy"
  /\ \/ \E i \in has_carrier :
          /\ \A j \in has_carrier : i <= j
          /\ BringEthernetOnline(i)
     \/ /\ has_carrier = {} /\ Ethernet = {}
        /\ MoveTo("NetworkConfig")
        /\ UNCHANGED networkVars
     \/ /\ has_carrier = {} /\ Ethernet # {}
        /\ \E ok \in SUBSET Ethernet : WaitForCarrier(ok)
  /\ UNCHANGED installVars

SelectAdvancedMode ==
  /\ Key("InstallModeSelect")
  /\ install_mode' = "Advanced"
  /\ MoveTo("NetworkConfig")
  /\ UNCHANGED <<networkVars, installVars>>

\* Mutant: the scan is for the new interface, the selection stays the old.
EnableAndScanOnly(i) ==
  /\ up' = up \cup {i}
  /\ network_state' = "Scanning"
  /\ evidence' = {}
  /\ MoveTo("WifiSelect")
  /\ UNCHANGED <<connectivity_retries, choiceVars, timerVars, enabled,
                 has_carrier, wpaVars>>

\* select_interface on a wifi interface: enable it and list the networks.
EnableAndScan(i) ==
  /\ selected_interface' = i
  /\ up' = up \cup {i}
  /\ network_state' = "Scanning"
  /\ evidence' = {}
  /\ MoveTo("WifiSelect")
  /\ UNCHANGED <<connectivity_retries, selected_ssid,
                 wifi_country, timerVars, enabled, has_carrier, wpaVars>>

SelectInterface ==
  /\ Key("NetworkConfig")
  /\ \/ \E i \in Ethernet : BringEthernetOnline(i)
     \/ \E i \in WifiIfaces : EnableAndScan(i)
  /\ UNCHANGED <<install_mode, installVars>>

\* wifi_auth_screen: open networks skip the WPS question.
AuthScreen(s) == IF s \in OpenSsids THEN "WifiPassword" ELSE "WpsPrompt"

\* The kernel's regulatory domain decides on the detour by the country.
SelectWifiNetwork ==
  /\ Key("WifiSelect")
  /\ \E s \in Ssids, domain_unset \in BOOLEAN :
       /\ selected_ssid' = s
       /\ MoveTo(IF ~wifi_country /\ domain_unset THEN "WifiCountry"
                                                  ELSE AuthScreen(s))
  /\ network_state' = "NetworkSelected"
  /\ UNCHANGED <<install_mode, connectivity_retries, evidence,
                 selected_interface, wifi_country,
                 timerVars, linkVars, wpaVars, installVars>>

SelectCountry ==
  /\ Key("WifiCountry")
  /\ wifi_country' = TRUE
  /\ MoveTo(AuthScreen(selected_ssid))
  /\ UNCHANGED <<install_mode, bringUpVars, selected_interface, selected_ssid,
                 timerVars, linkVars, wpaVars, installVars>>

\* What configure and authenticate leave of interface i's wpa_supplicant:
\* both rewrite its configuration and restart it, unless they cannot write.
Authenticate(i, s, result) ==
  IF result = "error"
  THEN UNCHANGED <<artifacts, associated>>
  ELSE /\ artifacts' = (artifacts \ {<<"wps", i>>}) \cup {<<"wpa", i>>}
       /\ associated' = [associated EXCEPT
            ![i] = IF result = "authenticated" THEN s ELSE NoSsid]

\* connect_wifi: any result but a refusal or a timeout counts as connected.
EnterWifiPassword ==
  /\ Key("WifiPassword")
  /\ selected_interface # None /\ selected_ssid # NoSsid
  /\ record("wpa")
  /\ \E result \in {"authenticated", "failed", "timeout", "error"} :
       /\ Authenticate(selected_interface, selected_ssid, result)
       /\ \/ /\ result = "failed"
             /\ network_state' = "NetworkSelected"
             /\ MoveTo("WifiPassword")
             /\ UNCHANGED <<connectivity_retries, evidence>>
          \/ /\ result = "timeout"
             /\ network_state' = "NetworkSelected"
             /\ MoveTo("WifiSelect")
             /\ UNCHANGED <<connectivity_retries, evidence>>
          \/ /\ result \in {"authenticated", "error"}
             /\ network_state' = "Connected"
             /\ connectivity_retries' = 0
             /\ evidence' = {}
             /\ MoveTo("NetworkProgress")
  /\ UNCHANGED <<install_mode, selected_interface, selected_ssid,
                 wifi_country, timerVars, linkVars, installVars>>

\* wps_pbc_start replaces the interface's wpa_supplicant by one that waits
\* for a router's button; it may fail before or after doing so.
StartWps(i) ==
  /\ artifacts' = (artifacts \ {<<"wpa", i>>}) \cup {<<"wps", i>>}
  /\ associated' = [associated EXCEPT ![i] = NoSsid]

WpsAccept ==
  /\ Key("WpsPrompt")
  /\ selected_interface # None
  /\ \/ /\ StartWps(selected_interface)
        /\ wps_start_time' = "running"
        /\ network_state' = "WpsWaiting"
        /\ evidence' = {}
        /\ MoveTo("WpsWaiting")
     \/ /\ StartWps(selected_interface) \/ UNCHANGED <<artifacts, associated>>
        /\ MoveTo("WpsPrompt")
        /\ UNCHANGED <<wps_start_time, network_state, evidence>>
  /\ UNCHANGED <<install_mode, connectivity_retries, choiceVars,
                 carrier_wait_start, carrier_candidates, linkVars, recorded,
                 installVars>>

WpsDecline ==
  /\ Key("WpsPrompt")
  /\ MoveTo("WifiPassword")
  /\ UNCHANGED <<install_mode, networkVars, installVars>>

\* Esc during WPS: the supplicant is stopped and the list shown again.
CancelWps ==
  /\ Key("WpsWaiting")
  /\ artifacts' = artifacts \ ({"wpa", "wps"} \X {selected_interface})
  /\ associated' = [i \in WifiIfaces |->
       IF i = selected_interface THEN NoSsid ELSE associated[i]]
  /\ wps_start_time' = "none"
  /\ network_state' = "Scanning"
  /\ MoveTo("WifiSelect")
  /\ UNCHANGED <<install_mode, connectivity_retries, evidence, choiceVars,
                 carrier_wait_start, carrier_candidates, linkVars, recorded,
                 installVars>>

\* Esc on NetworkProgress, the one other Back that touches the bring-up.
LeaveProgress ==
  /\ Key("NetworkProgress")
  /\ network_state' = "Offline"
  /\ MoveTo("NetworkConfig")
  /\ UNCHANGED <<install_mode, connectivity_retries, evidence, choiceVars,
                 timerVars, linkVars, wpaVars, installVars>>

\* Esc on the screens where it only moves, and Enter on the QR code.
NetworkBack ==
  /\ \/ Key("NetworkConfig") /\ MoveTo("InstallModeSelect")
     \/ Key("WifiSelect")    /\ MoveTo("NetworkConfig")
     \/ Key("WifiCountry")   /\ MoveTo("WifiSelect")
     \/ Key("WpsPrompt")     /\ MoveTo("WifiSelect")
     \/ Key("WifiPassword")  /\ MoveTo("WifiSelect")
     \/ Key("WifiQrDisplay") /\ MoveTo("NetworkProgress")
  /\ UNCHANGED <<install_mode, networkVars, installVars>>

ShowWifiQr ==
  /\ Key("NetworkProgress")
  /\ is_online
  /\ selected_ssid # NoSsid
  /\ MoveTo("WifiQrDisplay")
  /\ UNCHANGED <<install_mode, networkVars, installVars>>

\* persist_network_config for the selected interface, which may fail.
PersistNetworkConfig == persisted' \in {persisted, selected_interface}

\* Enter on NetworkProgress, once online, in the getty's reconfigure flow.
FinishNetworkOnly ==
  /\ Key("NetworkProgress")
  /\ NetworkOnly
  /\ is_online
  /\ PersistNetworkConfig
  /\ MoveTo("Reboot")
  /\ UNCHANGED <<install_mode, networkVars, diskVars, sshVars, volumeVars,
                 machine, final_state>>
----------------------------------------------------------------------------
(***************************************************************************)
(* advance_connectivity: each action is one arm of its match, taken by a   *)
(* tick on the selected interface.                                         *)
(***************************************************************************)
Advancing(state) ==
  /\ Tick
  /\ network_state = state
  /\ selected_interface # None

\* What a tick leaves alone unless an arm says otherwise.
TickKeepsApp == UNCHANGED <<screen, install_mode, should_quit, installVars>>

EnableInterface ==
  /\ Advancing("Offline")
  /\ \/ /\ network_state' = "DeviceEnabled"
        /\ connectivity_retries' = 0
     \/ /\ network_state' = "Error"
        /\ UNCHANGED connectivity_retries
  /\ up' = up \cup {selected_interface}
  /\ TickKeepsApp
  /\ UNCHANGED <<evidence, choiceVars, timerVars, enabled, has_carrier, wpaVars>>

\* The four steps that check something and retry: the failures each allows,
\* the state its success leads to, and what that success shows.
Budget == [DeviceEnabled    |-> LINK_MAX_RETRIES,
           IpAssigned       |-> MAX_RETRIES,
           CheckingRouter   |-> MAX_RETRIES,
           CheckingInternet |-> DNS_MAX_RETRIES]

Checking == DOMAIN Budget

\* Mutant: the arm of CheckingRouter sets the state two steps ahead.
AfterCheckSkipping == [DeviceEnabled    |-> "DhcpConfiguring",
                       IpAssigned       |-> "CheckingRouter",
                       CheckingRouter   |-> "CheckingDns",
                       CheckingInternet |-> "CheckingDns"]

AfterCheck == [DeviceEnabled    |-> "DhcpConfiguring",
               IpAssigned       |-> "CheckingRouter",
               CheckingRouter   |-> "CheckingInternet",
               CheckingInternet |-> "CheckingDns"]

Shows == [DeviceEnabled    |-> {},
          IpAssigned       |-> {"router"},
          CheckingRouter   |-> {"internet"},
          CheckingInternet |-> {"dns"}]

\* Mutant: failures of one check count against the next.
CheckPassesCounting ==
  \E state \in Checking :
    /\ Advancing(state)
    /\ network_state' = AfterCheck[state]
    /\ evidence' = evidence \cup ({selected_interface} \X Shows[state])
    /\ TickKeepsApp
    /\ UNCHANGED <<connectivity_retries, choiceVars, timerVars, linkVars, wpaVars>>

CheckPasses ==
  \E state \in Checking :
    /\ Advancing(state)
    /\ network_state' = AfterCheck[state]
    /\ connectivity_retries' = 0
    /\ evidence' = evidence \cup ({selected_interface} \X Shows[state])
    /\ TickKeepsApp
    /\ UNCHANGED <<choiceVars, timerVars, linkVars, wpaVars>>

\* Mutant: a failure is not counted.
CheckFailsUncounted ==
  \E state \in Checking :
    /\ Advancing(state)
    /\ network_state' =
         IF connectivity_retries >= Budget[state] THEN "Error" ELSE state
    /\ TickKeepsApp
    /\ UNCHANGED <<connectivity_retries, evidence, choiceVars, timerVars,
                   linkVars, wpaVars>>

CheckFails ==
  \E state \in Checking :
    /\ Advancing(state)
    /\ connectivity_retries' = connectivity_retries + 1
    /\ network_state' =
         IF connectivity_retries' >= Budget[state] THEN "Error" ELSE state
    /\ TickKeepsApp
    /\ UNCHANGED <<evidence, choiceVars, timerVars, linkVars, wpaVars>>

\* The 120 seconds are over; the waiting supplicant is left as it is.
WpsTimesOut ==
  /\ Advancing("WpsWaiting")
  /\ wps_start_time = "elapsed"
  /\ wps_start_time' = "none"
  /\ network_state' = "Scanning"
  /\ screen' = "WifiSelect"
  /\ UNCHANGED <<install_mode, should_quit, connectivity_retries, evidence,
                 choiceVars, carrier_wait_start, carrier_candidates, linkVars,
                 wpaVars, installVars>>

\* The router that answers need not be the one whose network was picked.
WpsCompletes ==
  /\ Advancing("WpsWaiting")
  /\ wps_start_time # "elapsed"
  /\ \E s \in Ssids :
       associated' = [associated EXCEPT ![selected_interface] = s]
  /\ wps_start_time' = "none"
  /\ connectivity_retries' = 0
  /\ network_state' = "Connected"
  /\ screen' = "NetworkProgress"
  /\ UNCHANGED <<install_mode, should_quit, evidence, choiceVars,
                 carrier_wait_start, carrier_candidates, linkVars, recorded,
                 artifacts, installVars>>

Connect ==
  /\ Advancing("Connected")
  /\ network_state' = "DhcpConfiguring"
  /\ connectivity_retries' = 0
  /\ TickKeepsApp
  /\ UNCHANGED <<evidence, choiceVars, timerVars, linkVars, wpaVars>>

AlreadyHasIp ==
  /\ Advancing("DhcpConfiguring")
  /\ network_state' = "IpAssigned"
  /\ connectivity_retries' = 0
  /\ TickKeepsApp
  /\ UNCHANGED <<evidence, choiceVars, timerVars, linkVars, wpaVars>>

\* DHCP that does not fail leads on even if no address is seen afterwards;
\* one that fails may have left its client running.
ConfigureDhcp ==
  /\ Advancing("DhcpConfiguring")
  /\ record("networkd")
  /\ \/ /\ artifacts' = artifacts \cup {<<"networkd", selected_interface>>}
        /\ network_state' = "IpAssigned"
        /\ connectivity_retries' = 0
     \/ /\ artifacts' \in {artifacts,
                           artifacts \cup {<<"networkd", selected_interface>>}}
        /\ network_state' = "Error"
        /\ UNCHANGED connectivity_retries
  /\ TickKeepsApp
  /\ UNCHANGED <<evidence, choiceVars, timerVars, linkVars, associated>>

\* SelectPrimaryInterface may write a networkd unit (it does under systemd);
\* shutdown_other_interfaces names the others whose enabled flag is set.
GoOnline ==
  /\ Advancing("CheckingDns")
  /\ record("networkd")
  /\ artifacts' \in {artifacts,
                     artifacts \cup {<<"networkd", selected_interface>>}}
  /\ up' = up \ (enabled \ {selected_interface})
  /\ network_state' = "Online"
  /\ TickKeepsApp
  /\ UNCHANGED <<connectivity_retries, evidence, choiceVars, timerVars,
                 enabled, has_carrier, associated>>

\* advance_carrier_wait finds a candidate with link.
CarrierFound ==
  /\ Tick
  /\ network_state = "WaitingForCarrier"
  /\ \E i \in carrier_candidates :
       /\ has_carrier' = has_carrier \cup {i}
       /\ selected_interface' = i
  /\ carrier_candidates' = {}
  /\ carrier_wait_start' = "none"
  /\ network_state' = "DhcpConfiguring"
  /\ connectivity_retries' = 0
  /\ TickKeepsApp
  /\ UNCHANGED <<evidence, selected_ssid, wifi_country,
                 wps_start_time, enabled, up, wpaVars>>

\* Nothing was plugged in for 30 seconds.
CarrierWaitEnds ==
  /\ Tick
  /\ network_state = "WaitingForCarrier"
  /\ carrier_wait_start # "running"
  /\ up' = up \ carrier_candidates
  /\ enabled' = enabled \ carrier_candidates
  /\ carrier_candidates' = {}
  /\ carrier_wait_start' = "none"
  /\ network_state' = "Offline"
  /\ screen' = "NetworkConfig"
  /\ UNCHANGED <<install_mode, should_quit, connectivity_retries, evidence,
                 choiceVars, wps_start_time, has_carrier, wpaVars, installVars>>

\* A tick that changes nothing: still waiting, or nothing to advance.
TickIdles ==
  /\ Tick
  /\ \/ network_state = "WaitingForCarrier" /\ carrier_wait_start = "running"
     \/ network_state = "WpsWaiting" /\ wps_start_time # "elapsed"
     \/ network_state \in {"Scanning", "NetworkSelected", "Online", "Error"}
     \/ network_state # "WaitingForCarrier" /\ selected_interface = None
  /\ UNCHANGED <<appVars, networkVars, installVars>>

advance_connectivity ==
  \/ EnableInterface \/ CheckPasses \/ CheckFails
  \/ WpsTimesOut \/ WpsCompletes \/ Connect
  \/ AlreadyHasIp \/ ConfigureDhcp \/ GoOnline
  \/ CarrierFound \/ CarrierWaitEnds \/ TickIdles

----------------------------------------------------------------------------
\* Time: the 30 s and 120 s deadlines pass while someone waits for them.
CarrierDeadline ==
  /\ network_state = "WaitingForCarrier" /\ carrier_wait_start = "running"
  /\ carrier_wait_start' = "elapsed"
  /\ UNCHANGED <<phase, appVars, bringUpVars, choiceVars, wps_start_time,
                 carrier_candidates, linkVars, wpaVars, installVars>>

WpsDeadline ==
  /\ network_state = "WpsWaiting" /\ wps_start_time = "running"
  /\ wps_start_time' = "elapsed"
  /\ UNCHANGED <<phase, appVars, bringUpVars, choiceVars, carrier_wait_start,
                 carrier_candidates, linkVars, wpaVars, installVars>>

NetworkKey ==
  \/ SelectEasyMode \/ SelectAdvancedMode \/ SelectInterface
  \/ SelectWifiNetwork \/ SelectCountry \/ EnterWifiPassword
  \/ WpsAccept \/ WpsDecline \/ CancelWps \/ LeaveProgress \/ NetworkBack
  \/ ShowWifiQr \/ FinishNetworkOnly

Deadline == CarrierDeadline \/ WpsDeadline
=============================================================================
