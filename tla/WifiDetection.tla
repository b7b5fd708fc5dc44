---------------------------- MODULE WifiDetection ----------------------------
(***************************************************************************)
(* Finding the interfaces and the first list of networks when the program  *)
(* starts (detect/mod.rs), and the scans it makes afterwards by either     *)
(* executor.  Drivers load, dongles come and go, access points too.        *)
(***************************************************************************)
EXTENDS WifiScan

CONSTANTS
  Links,            \* network devices, numbered in the order of their names
  Virtual,          \* lo, veth*, docker*, br-*, virbr*
  Wireless,         \* those the kernel has a wireless directory for
  WirelessName,     \* those called wl*
  Type801,          \* those of this hardware type, a wifi on some systems
  PREPARE_ATTEMPTS  \* 20

ASSUME LinkAssumption ==
  /\ Links \subseteq Nat /\ IsFiniteSet(Links)
  /\ Virtual \subseteq Links /\ Wireless \subseteq Links
  /\ WirelessName \subseteq Links /\ Type801 \subseteq Links
  /\ PREPARE_ATTEMPTS \in Nat

Ethernet == "Ethernet"
Wifi == "Wifi"

Step == {"start", "prepare", "list", "inspect", "environment", "bus", "read_bus",
         "iw", "iwlist", "parse", "done", "failed"}

\* Who scans: detect_wifi_environment, or scan_wifi_networks and
\* receive_wifi_scan_results of an executor.
Caller == {"detect", "scan", "scan_initrd", "receive"}

VARIABLES
  initrd, step, caller,
  polls,       \* of prepare_wifi_hardware
  by_networkd, \* the links come from networkd
  seen,        \* links listed, yet to be inspected
  kinds,       \* the kind given to each that was accepted
  interfaces,  \* these in order
  plugged,     \* links there are
  noticed      \* history: wifi links prepare_wifi_hardware saw that are still there

detectVars == <<initrd, step, caller, polls, by_networkd, seen, kinds, interfaces>>
worldVars == <<heard, plugged, noticed>>
vars == <<parserVars, detectVars, worldVars>>

TypeOK ==
  /\ ScanTypeOK
  /\ initrd \in BOOLEAN
  /\ step \in Step
  /\ caller \in Caller
  /\ polls \in 0..PREPARE_ATTEMPTS
  /\ by_networkd \in BOOLEAN
  /\ seen \subseteq Links
  /\ DOMAIN kinds \subseteq Links \ Virtual
  /\ kinds \in [DOMAIN kinds -> {Ethernet, Wifi}]
  /\ interfaces \in Seq(Links)
  /\ plugged \subseteq Links
  /\ noticed \subseteq plugged

Init ==
  /\ source = "none" /\ captured = <<>> /\ at = 0 /\ line = LINES
  /\ current_ssid = NoName /\ current_signal = WEAKEST /\ current_security = "Open"
  /\ networks = <<>>
  /\ heard = {}
  /\ initrd \in BOOLEAN /\ step = "start" /\ caller = "detect"
  /\ polls = 0
  /\ by_networkd = FALSE /\ seen = {} /\ kinds = [l \in {} |-> Wifi]
  /\ interfaces = <<>>
  /\ plugged \in {Virtual \cup s : s \in SUBSET Links} /\ noticed = {}
----------------------------------------------------------------------------
should_skip_interface(l) == l \in Virtual

\* The wireless directory and the type are read while the device is there.
detect_interface_kind(l) ==
  IF l \in (plugged \cap (Wireless \cup Type801)) \cup WirelessName THEN Wifi ELSE Ethernet

\* The type is not looked at.
has_wifi_interface == plugged \cap (Wireless \cup WirelessName)

\* In the initrd drivers are loaded first, and a wifi interface is waited for.
Start ==
  /\ step = "start"
  /\ step' = IF initrd THEN "prepare" ELSE "list"
  /\ by_networkd' = ~initrd
  /\ UNCHANGED <<initrd, caller, polls, seen, kinds, interfaces, parserVars, worldVars>>

\* Mutant: the attempts are not counted.
PollForEver == polls' = polls

PollAgain == polls' = polls + 1

prepare_wifi_hardware ==
  /\ step = "prepare"
  /\ IF has_wifi_interface # {} \/ polls = PREPARE_ATTEMPTS
     THEN /\ step' = "list" /\ noticed' = has_wifi_interface
          /\ polls' = 0
     ELSE /\ PollAgain
          /\ UNCHANGED <<step, noticed>>
  /\ UNCHANGED <<initrd, caller, by_networkd, seen, kinds, interfaces, parserVars,
                 heard, plugged>>

\* ListLinks, or the directory /sys/class/net.
ListLinks ==
  /\ step = "list"
  /\ seen' = plugged /\ kinds' = [l \in {} |-> Wifi]
  /\ step' = "inspect"
  /\ UNCHANGED <<initrd, caller, polls, by_networkd, interfaces, parserVars, worldVars>>

\* The bus or networkd is not there.
NetworkdUnavailable ==
  /\ step = "list" /\ by_networkd
  /\ by_networkd' = FALSE
  /\ UNCHANGED <<initrd, step, caller, polls, seen, kinds, interfaces, parserVars,
                 worldVars>>

InspectLink ==
  /\ step = "inspect"
  /\ \E l \in seen :
       /\ seen' = seen \ {l}
       /\ kinds' = IF should_skip_interface(l) THEN kinds
                   ELSE [k \in DOMAIN kinds \cup {l} |->
                           IF k = l THEN detect_interface_kind(l) ELSE kinds[k]]
  /\ UNCHANGED <<initrd, step, caller, polls, by_networkd, interfaces, parserVars,
                 worldVars>>

\* Mutant: by name alone.
Alphabetical(l, k) == l < k

\* Ethernet first, then wifi, by name within each.
sort_interfaces(l, k) ==
  \/ kinds[l] = Ethernet /\ kinds[k] = Wifi
  \/ kinds[l] = kinds[k] /\ l < k

\* What networkd lists is taken unless it is nothing.
DetectInterfaces ==
  /\ step = "inspect" /\ seen = {}
  /\ IF by_networkd /\ kinds = [l \in {} |-> Wifi]
     THEN /\ step' = "list" /\ by_networkd' = FALSE
          /\ UNCHANGED interfaces
     ELSE /\ step' = "environment"
          /\ \E p \in [1..Cardinality(DOMAIN kinds) -> DOMAIN kinds] :
               /\ \A i, j \in DOMAIN p : i < j => sort_interfaces(p[i], p[j])
               /\ interfaces' = p
          /\ UNCHANGED by_networkd
  /\ UNCHANGED <<initrd, caller, polls, seen, kinds, parserVars, worldVars>>

\* The first wifi interface is scanned, if there is one.
detect_wifi_environment ==
  /\ step = "environment"
  /\ step' = IF \E l \in DOMAIN kinds : kinds[l] = Wifi THEN "bus" ELSE "done"
  /\ noticed' = {}
  /\ UNCHANGED <<initrd, caller, polls, by_networkd, seen, kinds, interfaces, parserVars,
                 heard, plugged>>
----------------------------------------------------------------------------
scanOnly == UNCHANGED <<initrd, polls, by_networkd, seen, kinds, interfaces, worldVars>>

\* wpa_supplicant scanned for two seconds.  Detection goes on to read its BSS
\* objects, the executor to receive_wifi_scan_results.
ScanByBus ==
  /\ step = "bus"
  /\ \/ /\ caller = "detect" /\ step' = "read_bus" /\ UNCHANGED caller
        /\ \E l \in Listing(heard) : Begin("dbus", l)
     \/ /\ caller = "scan" /\ step' = "iw" /\ caller' = "receive"
        /\ UNCHANGED parserVars
  /\ scanOnly

\* No bus, no supplicant, or an interface it does not manage.
ScanByBusFails ==
  /\ step = "bus"
  /\ step' = "iw"
  /\ UNCHANGED caller /\ UNCHANGED parserVars /\ scanOnly

\* parse_bss_object.  An object that goes away while it is read is left out, or
\* listed without protection when it went after its frequency was read.
\* The properties RSN and WPA of one that is there can always be read.
ReadBss ==
  /\ step = "read_bus" /\ at < Len(captured)
  /\ at' = at + 1
  /\ LET a == captured[at + 1]
     IN  \/ a \in Named \cap heard /\ networks' = Append(networks, Network(a, "Wpa2"))
         \/ a \in Named \ heard /\ networks' = Append(networks, Network(a, "Open"))
         \/ a \notin Named \cap heard /\ UNCHANGED networks
  /\ UNCHANGED <<source, captured, line, current_ssid, current_signal, current_security,
                 step, caller>>
  /\ scanOnly

\* An empty list is not taken.
EndOfBus ==
  /\ step = "read_bus" /\ at = Len(captured)
  /\ step' = IF networks = <<>> THEN "iw" ELSE "done"
  /\ Sort(networks)
  /\ UNCHANGED <<source, captured, at, line, current_ssid, current_signal,
                 current_security, caller>>
  /\ scanOnly

\* iw scan, or iw scan dump, which prints what is known.
RunTool(tool) ==
  /\ step = tool
  /\ step' = "parse"
  /\ \E l \in Listing(heard) : Begin(tool, l)
  /\ UNCHANGED caller /\ scanOnly

ToolFails(tool) ==
  /\ step = tool
  /\ step' = IF tool = "iw" /\ caller # "receive" THEN "iwlist"
             ELSE IF caller = "detect" THEN "done" ELSE "failed"
  /\ Begin("none", <<>>)
  /\ UNCHANGED caller /\ scanOnly

Parse ==
  /\ step = "parse"
  /\ \/ (ReadHeader \/ ReadLine) /\ UNCHANGED step
     \/ EndOfOutput /\ step' = "done"
  /\ UNCHANGED caller /\ scanOnly

\* The installer scans again: SelectInterface scans, then receives.
Execute ==
  /\ step \in {"done", "failed"}
  /\ \E l \in DOMAIN kinds : kinds[l] = Wifi
  /\ caller' \in IF initrd THEN {"scan_initrd", "receive"} ELSE {"scan", "receive"}
  /\ step' = IF caller' = "scan" THEN "bus" ELSE "iw"
  /\ Begin("none", <<>>)
  /\ scanOnly
----------------------------------------------------------------------------
\* The world.  It is shown changing where the program may look at it; the
\* virtual links, which are skipped, stay.
Hear(a) ==
  /\ step \in {"bus", "iw", "iwlist"} /\ a \notin heard
  /\ heard' = heard \cup {a}
  /\ UNCHANGED <<parserVars, detectVars, plugged, noticed>>

Forget(a) ==
  /\ step \in {"bus", "read_bus", "iw", "iwlist"} /\ a \in heard
  /\ heard' = heard \ {a}
  /\ UNCHANGED <<parserVars, detectVars, plugged, noticed>>

Plug(l) ==
  /\ step \in {"start", "prepare", "list", "inspect"} /\ l \notin plugged
  /\ plugged' = plugged \cup {l}
  /\ UNCHANGED <<parserVars, detectVars, heard, noticed>>

Unplug(l) ==
  /\ step \in {"start", "prepare", "list", "inspect"} /\ l \in plugged
  /\ plugged' = plugged \ {l} /\ noticed' = noticed \ {l}
  /\ UNCHANGED <<parserVars, detectVars, heard>>

Program ==
  \/ Start \/ prepare_wifi_hardware
  \/ ListLinks \/ NetworkdUnavailable \/ InspectLink \/ DetectInterfaces
  \/ detect_wifi_environment
  \/ ScanByBus \/ ScanByBusFails \/ ReadBss \/ EndOfBus
  \/ \E tool \in {"iw", "iwlist"} : RunTool(tool) \/ ToolFails(tool)
  \/ Parse

World ==
  \/ \E a \in AP : Hear(a) \/ Forget(a)
  \/ \E l \in Links \ Virtual : Plug(l) \/ Unplug(l)

Next == Program \/ Execute \/ World

Spec == Init /\ [][Next]_vars

\* The program runs on; that it scans again is the user's choice.
FairSpec == Spec /\ WF_vars(Program)
----------------------------------------------------------------------------
Finished == step = "done" /\ source \in {"iw", "iwlist"}

\* A list holds every access point with a name that the tool reported, once and
\* with its own strength, and no other; and its own security, unless a "BSS
\* Load:" line split its block.  Neighbours in the output, hidden ones among
\* them, leave no trace (parse_iw_scan, parse_iwlist_scan).
ListsWhatWasHeard ==
  Finished =>
    /\ \A i \in DOMAIN networks : \E k \in DOMAIN captured : networks[i].bss = captured[k]
    /\ \A k \in DOMAIN captured :
         captured[k] \in Named =>
           \E i \in DOMAIN networks :
             /\ networks[i].bss = captured[k]
             /\ networks[i].signal_strength = Signal[captured[k]]
             /\ captured[k] \notin LoadFirst => networks[i] = Told(captured[k])

\* While a list is made, and after, no access point is on it twice and no
\* hidden one at all, whichever source it comes from.
ListedOnce ==
  \A i, j \in DOMAIN networks :
    networks[i].bss \in Named /\ (networks[i].bss = networks[j].bss => i = j)

\* The user is shown the strongest network first.
StrongestFirst ==
  step = "done" =>
    \A i, j \in DOMAIN networks :
      i < j => networks[i].signal_strength >= networks[j].signal_strength

\* Interfaces are listed once each, ethernet first: the installer tries them in
\* this order.  None is virtual, and a wifi interface that was waited for and
\* is still there is not taken for an ethernet one.
InterfacesOrdered ==
  step = "environment" =>
    /\ \A i, j \in DOMAIN interfaces :
         i < j => /\ interfaces[i] # interfaces[j]
                  /\ kinds[interfaces[i]] = Wifi => kinds[interfaces[j]] = Wifi
    /\ \A l \in noticed \ Virtual : l \in DOMAIN kinds /\ kinds[l] = Wifi

\* Finding the hardware and scanning come to an end, whatever comes and goes.
DetectionEnds == (step = "start") ~> (step = "done")
=============================================================================
