------------------------------ MODULE WifiProofs ------------------------------
(***************************************************************************)
(* Proofs about WifiDetection, for any access points and any links.        *)
(***************************************************************************)
EXTENDS WifiDetection, FiniteSetTheorems, TLAPS

\* Permuting a sequence keeps its type and its length.
LEMMA PermutedSeq ==
  ASSUME NEW S, NEW s \in Seq(S), NEW p \in [DOMAIN s -> DOMAIN s]
  PROVE  LET t == [k \in DOMAIN s |-> s[p[k]]]
         IN  t \in Seq(S) /\ DOMAIN t = DOMAIN s
<1> DEFINE t == [k \in DOMAIN s |-> s[p[k]]]
<1>1. Len(s) \in Nat /\ DOMAIN s = 1..Len(s)
  OBVIOUS
<1>2. \A k \in 1..Len(s) : s[p[k]] \in S
  BY <1>1
<1>3. t \in [1..Len(s) -> S]
  BY <1>1, <1>2
<1> QED
  BY <1>1, <1>3

\* A listing of some access points is a sequence of them without repetition.
LEMMA ListingSeq ==
  ASSUME NEW s \in SUBSET AP, NEW l \in Listing(s)
  PROVE  /\ l \in Seq(AP)
         /\ DOMAIN l = 1..Len(l)
         /\ \A i, j \in DOMAIN l : l[i] = l[j] => i = j
<1>1. IsFiniteSet(s)
  BY FS_Subset, RadioAssumption
<1>2. Cardinality(s) \in Nat
  BY <1>1, FS_CardinalityType
<1>3. l \in [1..Cardinality(s) -> AP]
  BY DEF Listing
<1> QED
  BY <1>2, <1>3 DEF Listing

LEMMA AddNetwork ==
  ASSUME NEW S, NEW s \in Seq(S), NEW e \in S
  PROVE  /\ Append(s, e) \in Seq(S)
         /\ DOMAIN Append(s, e) = 1..Len(s) + 1
         /\ DOMAIN s = 1..Len(s) /\ Len(s) \in Nat
         /\ \A i \in DOMAIN s : Append(s, e)[i] = s[i]
         /\ Append(s, e)[Len(s) + 1] = e
  OBVIOUS

-------------------------------------------------------------------------------
LEMMA FlushedType ==
  ASSUME ScanTypeOK
  PROVE  flushed \in Seq(WifiNetworkSpec)
<1>1. CASE current_ssid = NoName
  BY <1>1 DEF flushed, ScanTypeOK
<1>2. CASE current_ssid # NoName
  <2>1. Entry \in WifiNetworkSpec
    BY <1>2, Zenon DEF Entry, WifiNetworkSpec, ScanTypeOK
  <2> QED
    BY <1>2, <2>1, AddNetwork DEF flushed, ScanTypeOK
<1> QED
  BY <1>1, <1>2

LEMMA NetworkType ==
  ASSUME NEW a \in AP, NEW s \in {"Open", "Wep", "Wpa2"}
  PROVE  Network(a, s) \in WifiNetworkSpec /\ Network(a, s).bss = a
         /\ Network(a, s).signal_strength = Signal[a] /\ Network(a, s).security = s
<1>1. Signal[a] \in Int
  BY RadioAssumption
<1>2. Network(a, s) \in WifiNetworkSpec
  BY <1>1, Zenon DEF WifiNetworkSpec, Network
<1> QED
  BY <1>2 DEF Network

\* A new capture is well typed.
LEMMA BeginTypes ==
  ASSUME NEW tool \in Source, NEW l \in Seq(AP), heard' \in SUBSET AP, Begin(tool, l)
  PROVE  ScanTypeOK'
<1>1. <<>> \in Seq(WifiNetworkSpec) /\ 0 \in 0..Len(l) /\ LINES \in 0..LINES
  BY DEF LINES
<1> QED
  BY <1>1, RadioAssumption DEF Begin, ScanTypeOK, LINES

\* So is what each line of the output leaves.
LEMMA ReadTypes ==
  ASSUME ScanTypeOK, ReadHeader \/ ReadLine, UNCHANGED heard,
         ReadLine => at > 0
  PROVE  ScanTypeOK'
<1>1. CASE ReadHeader
  <2>1. at' \in 0..Len(captured') /\ line' \in 0..LINES
    BY <1>1 DEF ReadHeader, ScanTypeOK, LINES
  <2>2. networks' \in Seq(WifiNetworkSpec)
    BY <1>1, FlushedType DEF ReadHeader
  <2> QED
    BY <1>1, <2>1, <2>2, RadioAssumption DEF ReadHeader, ResetCurrent, ScanTypeOK, NoName
<1>2. CASE ReadLine
  <2>1. line' \in 0..LINES
    BY <1>2 DEF ReadLine, ScanTypeOK, LINES
  <2>2. captured[at] \in AP
    BY <1>2 DEF ScanTypeOK
  <2>3. Signal[captured[at]] \in Int
    BY <2>2, RadioAssumption
  <2>4. networks' \in Seq(WifiNetworkSpec)
    BY <1>2, FlushedType DEF ReadLine, ReadSignal, ReadSsid, ReadLoad, ReadSecurity,
                             ScanTypeOK
  <2>5. /\ current_ssid' \in AP \cup {NoName}
        /\ current_signal' \in Int
        /\ current_security' \in {"Open", "Wep", "Wpa2"}
    BY <1>2, <2>2, <2>3, RadioAssumption
    DEF ReadLine, ReadSignal, ReadSsid, ReadLoad, ReadSecurity, ResetCurrent, ScanTypeOK
  <2> QED
    BY <1>2, <2>1, <2>4, <2>5 DEF ReadLine, ScanTypeOK
<1> QED
  BY <1>1, <1>2

\* And what sorting leaves.
LEMMA SortTypes ==
  ASSUME NEW s \in Seq(WifiNetworkSpec), Sort(s)
  PROVE  networks' \in Seq(WifiNetworkSpec) /\ DOMAIN networks' = DOMAIN s
<1>1. PICK p \in Orders(s) : networks' = [k \in DOMAIN s |-> s[p[k]]]
  BY DEF Sort
<1>2. p \in [DOMAIN s -> DOMAIN s]
  BY <1>1 DEF Orders
<1> QED
  BY <1>1, <1>2, PermutedSeq

-------------------------------------------------------------------------------
Detecting == {"start", "prepare", "list", "inspect", "environment"}

\* What is read where.
Reading ==
  /\ step \in Detecting => source = "none" /\ networks = <<>>
  /\ step = "parse" => source \in {"iw", "iwlist"}
  /\ step = "read_bus" => source = "dbus"
  /\ current_ssid # NoName =>
       /\ step = "parse" /\ at > 0 /\ line >= 2
       /\ current_ssid = captured[at] /\ captured[at] \in Named
  /\ line < LINES => at > 0 /\ step = "parse"
  /\ \A i, j \in DOMAIN captured : captured[i] = captured[j] => i = j

LEMMA InitReads == Init => TypeOK /\ Reading
<1> SUFFICES ASSUME Init
             PROVE  TypeOK /\ Reading
  OBVIOUS
<1>1. ScanTypeOK
  <2>1. <<>> \in Seq(AP) /\ <<>> \in Seq(WifiNetworkSpec) /\ 0 \in 0..Len(<<>>)
        /\ LINES \in 0..LINES
    BY DEF LINES
  <2> QED
    BY <2>1, RadioAssumption DEF Init, ScanTypeOK, Source
<1>2. TypeOK
  <2>1. <<>> \in Seq(Links) /\ 0 \in 0..PREPARE_ATTEMPTS
    BY LinkAssumption
  <2>2. /\ DOMAIN kinds \subseteq Links \ Virtual
        /\ kinds \in [DOMAIN kinds -> {Ethernet, Wifi}]
    BY DEF Init
  <2>3. plugged \subseteq Links /\ noticed \subseteq plugged
    BY LinkAssumption DEF Init
  <2> QED
    BY <1>1, <2>1, <2>2, <2>3 DEF Init, TypeOK, Step, Caller
<1>3. Reading
  BY DEF Init, Reading, Detecting, LINES
<1> QED
  BY <1>2, <1>3

\* Neither the detection of interfaces nor the world touches the parser.
Apart == UNCHANGED parserVars /\ heard' \in SUBSET AP

LEMMA ApartTypes ==
  ASSUME ScanTypeOK, Apart
  PROVE  ScanTypeOK'
BY DEF ScanTypeOK, Apart, parserVars

\* The detection of interfaces keeps its types.
LEMMA DetectTypes ==
  ASSUME TypeOK,
         \/ Start \/ prepare_wifi_hardware \/ ListLinks \/ NetworkdUnavailable
         \/ InspectLink \/ DetectInterfaces \/ detect_wifi_environment
  PROVE  TypeOK' /\ Apart
<1>0. Apart
  BY DEF Start, prepare_wifi_hardware, ListLinks, NetworkdUnavailable, InspectLink,
         DetectInterfaces, detect_wifi_environment, worldVars, Apart, TypeOK, ScanTypeOK
<1>1. ScanTypeOK'
  BY <1>0, ApartTypes DEF TypeOK
<1>2. initrd' \in BOOLEAN /\ caller' \in Caller /\ by_networkd' \in BOOLEAN
  BY DEF Start, prepare_wifi_hardware, ListLinks, NetworkdUnavailable, InspectLink,
         DetectInterfaces, detect_wifi_environment, TypeOK
<1>3. step' \in Step
  BY DEF Start, prepare_wifi_hardware, ListLinks, NetworkdUnavailable, InspectLink,
         DetectInterfaces, detect_wifi_environment, TypeOK, Step
<1>4. polls' \in 0..PREPARE_ATTEMPTS
  BY LinkAssumption
  DEF Start, prepare_wifi_hardware, ListLinks, NetworkdUnavailable, InspectLink,
      DetectInterfaces, detect_wifi_environment, TypeOK, PollAgain
<1>5. seen' \subseteq Links
  BY DEF Start, prepare_wifi_hardware, ListLinks, NetworkdUnavailable, InspectLink,
         DetectInterfaces, detect_wifi_environment, TypeOK
<1>6. DOMAIN kinds' \subseteq Links \ Virtual /\ kinds' \in [DOMAIN kinds' -> {Ethernet, Wifi}]
  <2>1. CASE InspectLink
    <3>1. PICK l \in seen :
            kinds' = IF should_skip_interface(l) THEN kinds
                     ELSE [k \in DOMAIN kinds \cup {l} |->
                             IF k = l THEN detect_interface_kind(l) ELSE kinds[k]]
      BY <2>1 DEF InspectLink
    <3>2. detect_interface_kind(l) \in {Ethernet, Wifi}
      BY DEF detect_interface_kind
    <3>3. l \in Links
      BY DEF TypeOK
    <3>4. CASE should_skip_interface(l)
      BY <3>1, <3>4 DEF TypeOK
    <3>5. CASE ~should_skip_interface(l)
      BY <3>1, <3>2, <3>3, <3>5 DEF TypeOK, should_skip_interface
    <3> QED
      BY <3>4, <3>5
  <2>2. CASE ListLinks
    BY <2>2 DEF ListLinks
  <2>3. CASE UNCHANGED kinds
    BY <2>3 DEF TypeOK
  <2> QED
    BY <2>1, <2>2, <2>3
    DEF Start, prepare_wifi_hardware, NetworkdUnavailable, DetectInterfaces,
        detect_wifi_environment
<1>7. interfaces' \in Seq(Links)
  <2>1. CASE DetectInterfaces /\ step' = "environment"
    <3>1. PICK p \in [1..Cardinality(DOMAIN kinds) -> DOMAIN kinds] : interfaces' = p
      BY <2>1 DEF DetectInterfaces
    <3>2. IsFiniteSet(DOMAIN kinds)
      BY FS_Subset, LinkAssumption DEF TypeOK
    <3>3. Cardinality(DOMAIN kinds) \in Nat
      BY <3>2, FS_CardinalityType
    <3>4. p \in [1..Cardinality(DOMAIN kinds) -> Links]
      BY DEF TypeOK
    <3> QED
      BY <3>1, <3>3, <3>4
  <2>2. CASE UNCHANGED interfaces
    BY <2>2 DEF TypeOK
  <2> QED
    BY <2>1, <2>2
    DEF Start, prepare_wifi_hardware, ListLinks, NetworkdUnavailable, InspectLink,
        DetectInterfaces, detect_wifi_environment
<1>8. plugged' \subseteq Links /\ noticed' \subseteq plugged'
  BY DEF Start, prepare_wifi_hardware, ListLinks, NetworkdUnavailable, InspectLink,
         DetectInterfaces, detect_wifi_environment, TypeOK, worldVars, has_wifi_interface
<1> QED
  BY <1>0, <1>1, <1>2, <1>3, <1>4, <1>5, <1>6, <1>7, <1>8 DEF TypeOK

\* What the program does with the parser, and the world.
Scanning ==
  \/ ScanByBus \/ ScanByBusFails \/ ReadBss \/ EndOfBus
  \/ \E tool \in {"iw", "iwlist"} : RunTool(tool) \/ ToolFails(tool)
  \/ Parse \/ Execute

LEMMA ScanningTypes ==
  ASSUME TypeOK, Reading, Scanning
  PROVE  TypeOK'
<1>0. heard' \in SUBSET AP /\ heard' = heard
  BY DEF Scanning, ScanByBus, ScanByBusFails, ReadBss, EndOfBus, RunTool, ToolFails,
         Parse, Execute, scanOnly, worldVars, TypeOK, ScanTypeOK
<1>1. ScanTypeOK'
  <2>1. ASSUME NEW tool \in Source, NEW l \in Listing(heard), Begin(tool, l)
        PROVE  ScanTypeOK'
    <3>1. l \in Seq(AP)
      BY ListingSeq DEF TypeOK, ScanTypeOK
    <3> QED
      BY <1>0, <2>1, <3>1, BeginTypes
  <2>2. ASSUME Begin("none", <<>>)
        PROVE  ScanTypeOK'
    <3>1. <<>> \in Seq(AP) /\ "none" \in Source
      BY DEF Source
    <3> QED
      BY <1>0, <2>2, <3>1, BeginTypes
  <2>3. CASE ScanByBus \/ \E tool \in {"iw", "iwlist"} : RunTool(tool)
    BY <1>0, <2>1, <2>3, ApartTypes DEF ScanByBus, RunTool, Source, Apart, TypeOK
  <2>4. CASE ScanByBusFails
    BY <1>0, <2>4, ApartTypes DEF ScanByBusFails, Apart, TypeOK
  <2>5. CASE Execute \/ \E tool \in {"iw", "iwlist"} : ToolFails(tool)
    BY <2>2, <2>5 DEF Execute, ToolFails
  <2>6. CASE ReadBss
    <3>1. at' \in 0..Len(captured)
      BY <2>6 DEF ReadBss, TypeOK, ScanTypeOK
    <3>2. captured[at + 1] \in AP
      BY <2>6 DEF ReadBss, TypeOK, ScanTypeOK
    <3>3. networks' \in Seq(WifiNetworkSpec)
      <4>1. /\ Network(captured[at + 1], "Wpa2") \in WifiNetworkSpec
            /\ Network(captured[at + 1], "Open") \in WifiNetworkSpec
        BY <3>2, NetworkType
      <4>2. networks \in Seq(WifiNetworkSpec)
        BY DEF TypeOK, ScanTypeOK
      <4> QED
        BY <2>6, <4>1, <4>2, AddNetwork DEF ReadBss
    <3> QED
      BY <1>0, <2>6, <3>1, <3>3 DEF ReadBss, TypeOK, ScanTypeOK
  <2>7. CASE EndOfBus
    <3>1. networks' \in Seq(WifiNetworkSpec)
      BY <2>7, SortTypes DEF EndOfBus, TypeOK, ScanTypeOK
    <3> QED
      BY <1>0, <2>7, <3>1 DEF EndOfBus, TypeOK, ScanTypeOK
  <2>8. CASE Parse
    <3>1. CASE ReadHeader \/ ReadLine
      BY <1>0, <3>1, ReadTypes DEF TypeOK, Reading, ReadLine
    <3>2. CASE EndOfOutput
      <4>1. networks' \in Seq(WifiNetworkSpec)
        BY <3>2, SortTypes, FlushedType DEF EndOfOutput, TypeOK
      <4> QED
        BY <1>0, <3>2, <4>1 DEF EndOfOutput, TypeOK, ScanTypeOK
    <3> QED
      BY <2>8, <3>1, <3>2 DEF Parse
  <2> QED
    BY <2>3, <2>4, <2>5, <2>6, <2>7, <2>8 DEF Scanning
<1>2. UNCHANGED <<initrd, polls, by_networkd, seen, kinds, interfaces, plugged, noticed>>
  BY DEF Scanning, ScanByBus, ScanByBusFails, ReadBss, EndOfBus, RunTool, ToolFails,
         Parse, Execute, scanOnly, worldVars
<1>3. step' \in Step
  BY DEF Scanning, ScanByBus, ScanByBusFails, ReadBss, EndOfBus, RunTool, ToolFails,
         Parse, Execute, TypeOK, Step
<1>4. caller' \in Caller
  BY DEF Scanning, ScanByBus, ScanByBusFails, ReadBss, EndOfBus, RunTool, ToolFails,
         Parse, Execute, TypeOK, Caller
<1> QED
  BY <1>1, <1>2, <1>3, <1>4 DEF TypeOK

LEMMA WorldTypes ==
  ASSUME TypeOK, World
  PROVE  TypeOK' /\ Apart
<1>1. UNCHANGED parserVars /\ UNCHANGED detectVars
  BY DEF World, Hear, Forget, Plug, Unplug
<1>2. heard' \in SUBSET AP /\ plugged' \subseteq Links /\ noticed' \subseteq plugged'
  BY DEF World, Hear, Forget, Plug, Unplug, TypeOK, ScanTypeOK
<1>3. Apart /\ ScanTypeOK'
  BY <1>1, <1>2, ApartTypes DEF Apart, TypeOK
<1> QED
  BY <1>1, <1>2, <1>3 DEF TypeOK, detectVars

-------------------------------------------------------------------------------
LEMMA DetectReads ==
  ASSUME TypeOK, Reading,
         \/ Start \/ prepare_wifi_hardware \/ ListLinks \/ NetworkdUnavailable
         \/ InspectLink \/ DetectInterfaces \/ detect_wifi_environment
  PROVE  Reading'
<1>1. step \in Detecting /\ step' \in Detecting \cup {"bus", "done"}
  BY DEF Start, prepare_wifi_hardware, ListLinks, NetworkdUnavailable, InspectLink,
         DetectInterfaces, detect_wifi_environment, Detecting
<1>2. UNCHANGED parserVars
  BY DEF Start, prepare_wifi_hardware, ListLinks, NetworkdUnavailable, InspectLink,
         DetectInterfaces, detect_wifi_environment
<1> QED
  BY <1>1, <1>2 DEF Reading, Detecting, parserVars, ScanTypeOK, TypeOK

LEMMA BeginReads ==
  ASSUME NEW tool \in Source, NEW l \in Listing(heard), TypeOK, Begin(tool, l),
         step' \notin Detecting,
         step' = "parse" => tool \in {"iw", "iwlist"},
         step' = "read_bus" => tool = "dbus"
  PROVE  Reading'
<1>1. \A i, j \in DOMAIN l : l[i] = l[j] => i = j
  BY ListingSeq DEF TypeOK, ScanTypeOK
<1> QED
  BY <1>1 DEF Reading, Begin, LINES

LEMMA HeaderReads ==
  ASSUME TypeOK, Reading, Parse, ReadHeader, step' = "parse"
  PROVE  Reading'
BY DEF Reading, ReadHeader, ResetCurrent, Detecting, TypeOK, ScanTypeOK, LINES

LEMMA LineReads ==
  ASSUME TypeOK, Reading, Parse, ReadLine, step' = "parse"
  PROVE  Reading'
<1> DEFINE a == captured[at]
<1>1. /\ at > 0 /\ line' = line + 1 /\ line \in 0..LINES - 1 /\ step = "parse"
      /\ UNCHANGED <<source, captured, at>>
      /\ captured[at] \in AP
  BY DEF Reading, ReadLine, TypeOK, ScanTypeOK, LINES
<1>2. current_ssid' # NoName =>
        line' >= 2 /\ current_ssid' = captured[at] /\ captured[at] \in Named
  <2>1. CASE UNCHANGED current_ssid
    BY <1>1, <2>1 DEF Reading
  <2>2. CASE ReadLoad
    BY <2>2 DEF ReadLoad, ResetCurrent
  <2>3. CASE line' = 2 /\ Printed(line', captured[at]) /\ ReadSsid(captured[at])
    <3>1. captured[at] \in Named
      BY <2>3 DEF Printed
    <3> QED
      BY <2>3, <3>1, <1>1 DEF ReadSsid
  <2> QED
    BY <2>1, <2>2, <2>3 DEF ReadLine, ReadSignal, ReadSecurity
<1> QED
  BY <1>1, <1>2 DEF Reading, Detecting

LEMMA ScanningReads ==
  ASSUME TypeOK, Reading, Scanning
  PROVE  Reading'
<1>0. heard' = heard /\ {} \subseteq heard
  BY DEF Scanning, ScanByBus, ScanByBusFails, ReadBss, EndOfBus, RunTool, ToolFails,
         Parse, Execute, scanOnly, worldVars
<1>1. CASE ScanByBus /\ caller = "detect" /\ step' = "read_bus"
  BY <1>1, BeginReads DEF ScanByBus, Source, Detecting
<1>2. CASE ScanByBus /\ caller = "scan"
  BY <1>2 DEF ScanByBus, Reading, Detecting, parserVars
<1>3. CASE ScanByBusFails
  BY <1>3 DEF ScanByBusFails, Reading, Detecting, parserVars
<1>4. CASE ReadBss
  <2>1. networks' = networks \/ step = "read_bus"
    BY <1>4 DEF ReadBss
  <2> QED
    BY <1>4, <2>1 DEF ReadBss, Reading, Detecting, TypeOK, ScanTypeOK, LINES
<1>5. CASE EndOfBus
  BY <1>5 DEF EndOfBus, Reading, Detecting
<1>6. ASSUME NEW tool \in {"iw", "iwlist"}, RunTool(tool)
      PROVE  Reading'
  BY <1>6, BeginReads DEF RunTool, Source, Detecting
<1>7. ASSUME Begin("none", <<>>), step' \notin Detecting, step' \notin {"parse", "read_bus"}
      PROVE  Reading'
  BY <1>7 DEF Reading, Begin, LINES
<1>8. ASSUME NEW tool \in {"iw", "iwlist"}, ToolFails(tool)
      PROVE  Reading'
  BY <1>7, <1>8 DEF ToolFails, Detecting
<1>9. CASE Parse
  <2>1. CASE ReadHeader /\ step' = "parse"
    BY <1>9, <2>1, HeaderReads
  <2>2. CASE ReadLine /\ step' = "parse"
    BY <1>9, <2>2, LineReads
  <2>3. CASE EndOfOutput /\ step' = "done"
    BY <2>3 DEF EndOfOutput, Reading, Detecting, LINES
  <2> QED
    BY <1>9, <2>1, <2>2, <2>3 DEF Parse
<1>10. CASE Execute
  BY <1>7, <1>10 DEF Execute, Detecting
<1> QED
  BY <1>1, <1>2, <1>3, <1>4, <1>5, <1>6, <1>8, <1>9, <1>10 DEF Scanning, ScanByBus

Invariant == TypeOK /\ Reading

LEMMA InvariantStep == Invariant /\ [Next]_vars => Invariant'
<1> SUFFICES ASSUME Invariant, [Next]_vars
             PROVE  Invariant'
  OBVIOUS
<1>1. CASE \/ Start \/ prepare_wifi_hardware \/ ListLinks \/ NetworkdUnavailable
           \/ InspectLink \/ DetectInterfaces \/ detect_wifi_environment
  BY <1>1, DetectTypes, DetectReads DEF Invariant
<1>2. CASE Scanning
  BY <1>2, ScanningTypes, ScanningReads DEF Invariant
<1>3. CASE World
  <2>1. TypeOK' /\ Apart
    BY <1>3, WorldTypes DEF Invariant
  <2>2. UNCHANGED parserVars /\ UNCHANGED step
    BY <1>3 DEF World, Hear, Forget, Plug, Unplug, detectVars
  <2> QED
    BY <2>1, <2>2 DEF Invariant, Reading, parserVars
<1>4. CASE UNCHANGED vars
  BY <1>4 DEF vars, parserVars, detectVars, worldVars, Invariant, TypeOK, ScanTypeOK, Reading
<1> QED
  BY <1>1, <1>2, <1>3, <1>4 DEF Next, Program, Scanning

\* The state is well typed: only access points are captured and listed, each
\* interface that is accepted has a kind and is not virtual.
THEOREM WifiTypes == Spec => []TypeOK
<1>1. Init => Invariant
  BY InitReads DEF Invariant
<1>2. Invariant => TypeOK
  BY DEF Invariant
<1> QED
  BY <1>1, <1>2, InvariantStep, PTL DEF Spec

-------------------------------------------------------------------------------
\* Everything on the list was captured, by now, and has a name; the access
\* point whose block is read is not on it before that block was flushed.
Listed ==
  /\ \A i \in DOMAIN networks :
       \E k \in 1..at : networks[i].bss = captured[k] /\ captured[k] \in Named
  /\ \A i, j \in DOMAIN networks : networks[i].bss = networks[j].bss => i = j
  /\ step = "parse" /\ at > 0 /\ (line < 2 \/ current_ssid # NoName) =>
       \A i \in DOMAIN networks : networks[i].bss # captured[at]

\* Adding a captured access point that is not on the list.
LEMMA AddListed ==
  ASSUME ScanTypeOK, Listed, NEW e \in WifiNetworkSpec, NEW n \in 1..Len(captured),
         n >= at, n > 0, e.bss = captured[n], captured[n] \in Named,
         \A i \in DOMAIN networks : networks[i].bss # e.bss,
         NEW t, t = Append(networks, e)
  PROVE  /\ \A i \in DOMAIN t :
              \E k \in 1..n : t[i].bss = captured[k] /\ captured[k] \in Named
         /\ \A i, j \in DOMAIN t : t[i].bss = t[j].bss => i = j
<1>1. /\ DOMAIN t = 1..Len(networks) + 1
      /\ DOMAIN networks = 1..Len(networks) /\ Len(networks) \in Nat
      /\ \A i \in DOMAIN networks : t[i] = networks[i]
      /\ t[Len(networks) + 1] = e
  BY AddNetwork DEF ScanTypeOK
<1>2. at \in Nat /\ n \in Nat /\ 1..at \subseteq 1..n /\ n \in 1..n
  BY DEF ScanTypeOK
<1> QED
  BY <1>1, <1>2 DEF Listed

LEMMA FlushedListed ==
  ASSUME TypeOK, Reading, Listed
  PROVE  /\ \A i \in DOMAIN flushed :
              \E k \in 1..at : flushed[i].bss = captured[k] /\ captured[k] \in Named
         /\ \A i, j \in DOMAIN flushed : flushed[i].bss = flushed[j].bss => i = j
<1>1. CASE current_ssid = NoName
  BY <1>1 DEF flushed, Listed
<1>2. CASE current_ssid # NoName
  <2>1. Entry \in WifiNetworkSpec /\ Entry.bss = current_ssid
    <3>1. Entry \in WifiNetworkSpec
      BY <1>2, Zenon DEF Entry, WifiNetworkSpec, TypeOK, ScanTypeOK
    <3> QED
      BY <3>1 DEF Entry
  <2>2. /\ step = "parse" /\ at > 0 /\ at \in 1..Len(captured)
        /\ current_ssid = captured[at] /\ captured[at] \in Named
    BY <1>2 DEF Reading, TypeOK, ScanTypeOK
  <2>3. flushed = Append(networks, Entry)
    BY <1>2 DEF flushed
  <2>4. ScanTypeOK /\ at >= at
    BY <2>2 DEF TypeOK
  <2>5. Entry.bss = captured[at]
    BY <2>1, <2>2
  <2>6. \A i \in DOMAIN networks : networks[i].bss # Entry.bss
    BY <1>2, <2>2, <2>5 DEF Listed
  <2> HIDE DEF Entry
  <2> QED
    BY <2>1, <2>2, <2>3, <2>4, <2>5, <2>6, AddListed
<1> QED
  BY <1>1, <1>2

\* Sorting keeps each network of the list, and each once.
LEMMA SortKeeps ==
  ASSUME NEW s \in Seq(WifiNetworkSpec), Sort(s)
  PROVE  /\ networks' \in Seq(WifiNetworkSpec)
         /\ \E p \in [DOMAIN s -> DOMAIN s] :
              /\ DOMAIN networks' = DOMAIN s
              /\ \A k \in DOMAIN s : networks'[k] = s[p[k]]
              /\ \A i \in DOMAIN s : \E k \in DOMAIN s : p[k] = i
              /\ \A k, l \in DOMAIN s : k < l => p[k] # p[l]
         /\ \A k, l \in DOMAIN networks' :
              k < l => networks'[k].signal_strength >= networks'[l].signal_strength
<1>1. PICK p \in Orders(s) : networks' = [k \in DOMAIN s |-> s[p[k]]]
  BY DEF Sort
<1>2. p \in [DOMAIN s -> DOMAIN s]
  BY <1>1 DEF Orders
<1>3. DOMAIN networks' = DOMAIN s /\ networks' \in Seq(WifiNetworkSpec)
  BY <1>1, <1>2, PermutedSeq
<1>4. ASSUME NEW k \in DOMAIN s, NEW l \in DOMAIN s, k < l
      PROVE  networks'[k].signal_strength >= networks'[l].signal_strength
  <2>1. before(s[p[k]], s[p[l]]) \/ ~before(s[p[l]], s[p[k]])
    <3>1. \A x, y \in DOMAIN s :
            x < y => before(s[p[x]], s[p[y]]) \/ (~before(s[p[y]], s[p[x]]) /\ p[x] < p[y])
      BY DEF Orders
    <3> QED
      BY <1>4, <3>1, Zenon
  <2>2. /\ s[p[k]].signal_strength \in Int /\ s[p[l]].signal_strength \in Int
        /\ networks'[k] = s[p[k]] /\ networks'[l] = s[p[l]]
    <3>1. s[p[k]] \in WifiNetworkSpec /\ s[p[l]] \in WifiNetworkSpec
      BY <1>2, <1>4
    <3> QED
      BY <1>1, <1>4, <3>1 DEF WifiNetworkSpec
  <2> QED
    BY <2>1, <2>2 DEF before, Stronger
<1>5. /\ \A i \in DOMAIN s : \E k \in DOMAIN s : p[k] = i
      /\ \A k, l \in DOMAIN s : k < l => p[k] # p[l]
  BY DEF Orders
<1> QED
  BY <1>1, <1>2, <1>3, <1>4, <1>5

\* The sorted list holds what the list held.
LEMMA SortListed ==
  ASSUME NEW s \in Seq(WifiNetworkSpec), Sort(s), NEW P,
         \A i \in DOMAIN s : s[i].bss \in P,
         \A i, j \in DOMAIN s : s[i].bss = s[j].bss => i = j
  PROVE  /\ \A i \in DOMAIN networks' : networks'[i].bss \in P
         /\ \A i, j \in DOMAIN networks' : networks'[i].bss = networks'[j].bss => i = j
<1>1. PICK p \in [DOMAIN s -> DOMAIN s] :
         /\ DOMAIN networks' = DOMAIN s
         /\ \A k \in DOMAIN s : networks'[k] = s[p[k]]
         /\ \A k, l \in DOMAIN s : k < l => p[k] # p[l]
  BY SortKeeps
<1>2. DOMAIN s = 1..Len(s) /\ Len(s) \in Nat
  OBVIOUS
<1>3. \A k, l \in DOMAIN s : p[k] = p[l] => k = l
  BY <1>1, <1>2
<1> QED
  BY <1>1, <1>3

LEMMA DetectLists ==
  ASSUME Invariant, Listed, 
         \/ Start \/ prepare_wifi_hardware \/ ListLinks \/ NetworkdUnavailable
         \/ InspectLink \/ DetectInterfaces \/ detect_wifi_environment
  PROVE  Listed'
<1>1. step' \in Detecting \cup {"bus", "done"}
  BY DEF Start, prepare_wifi_hardware, ListLinks, NetworkdUnavailable, InspectLink,
         DetectInterfaces, detect_wifi_environment, Detecting
<1>2. UNCHANGED parserVars
  BY DEF Start, prepare_wifi_hardware, ListLinks, NetworkdUnavailable, InspectLink,
         DetectInterfaces, detect_wifi_environment
<1> QED
  BY <1>1, <1>2 DEF Listed, parserVars, Detecting

LEMMA HeaderLists ==
  ASSUME Invariant, Listed, Parse, ReadHeader, step' = "parse"
  PROVE  Listed'
<1>1. /\ at' = at + 1 /\ UNCHANGED captured /\ networks' = flushed
      /\ at \in 0..Len(captured) - 1 /\ Len(captured) \in Nat
  BY DEF ReadHeader, Invariant, TypeOK, ScanTypeOK
<1>2. /\ \A i \in DOMAIN networks' :
           \E k \in 1..at : networks'[i].bss = captured[k] /\ captured[k] \in Named
      /\ \A i, j \in DOMAIN networks' : networks'[i].bss = networks'[j].bss => i = j
  BY <1>1, FlushedListed DEF Invariant
<1>3. 1..at \subseteq 1..at' /\ \A k \in 1..at : k # at'
  BY <1>1
<1>4. \A k \in 1..at : captured[k] # captured[at']
  <2>1. 1..at \subseteq DOMAIN captured /\ at' \in DOMAIN captured
    BY <1>1 DEF Invariant, TypeOK, ScanTypeOK
  <2> QED
    BY <1>3, <2>1 DEF Invariant, Reading
<1> QED
  BY <1>1, <1>2, <1>3, <1>4 DEF Listed

LEMMA LineLists ==
  ASSUME Invariant, Listed, Parse, ReadLine, step' = "parse"
  PROVE  Listed'
<1>1. /\ UNCHANGED <<captured, at>> /\ line' = line + 1 /\ line \in 0..LINES - 1
      /\ at > 0 /\ step = "parse"
  BY DEF ReadLine, Invariant, TypeOK, ScanTypeOK, Reading, LINES
<1>2. CASE ReadLoad /\ line' \in {3, 5}
  <2>1. networks' = flushed /\ current_ssid' = NoName
    BY <1>2 DEF ReadLoad, ResetCurrent
  <2> QED
    BY <1>1, <1>2, <2>1, FlushedListed DEF Listed, Invariant
<1>3. CASE line' = 2 /\ ReadSsid(captured[at])
  <2>1. line < 2 /\ UNCHANGED networks
    BY <1>1, <1>3 DEF ReadSsid
  <2> QED
    BY <1>1, <2>1 DEF Listed
<1>4. CASE UNCHANGED <<current_ssid, networks>>
  BY <1>1, <1>4 DEF Listed, LINES
<1> QED
  BY <1>2, <1>3, <1>4 DEF ReadLine, ReadSignal, ReadSecurity

LEMMA ScanningLists ==
  ASSUME Invariant, Listed, Scanning
  PROVE  Listed'
<1>1. ASSUME networks' = <<>>
      PROVE  Listed'
  BY <1>1 DEF Listed
<1>2. CASE \/ ScanByBus /\ caller = "detect"
           \/ Execute
           \/ \E tool \in {"iw", "iwlist"} : RunTool(tool) \/ ToolFails(tool)
  <2>1. networks' = <<>> \/ (ScanByBus /\ step' = "iw" /\ UNCHANGED parserVars)
    BY <1>2 DEF ScanByBus, Execute, RunTool, ToolFails, Begin
  <2> QED
    BY <1>1, <2>1 DEF Listed, parserVars
<1>3. CASE (ScanByBus /\ caller = "scan") \/ ScanByBusFails
  BY <1>3 DEF ScanByBus, ScanByBusFails, Listed, parserVars
<1>4. CASE ReadBss
  <2>1. /\ UNCHANGED captured /\ at' = at + 1 /\ at' \in 1..Len(captured) /\ at' >= at /\ at' > 0
        /\ at \in 0..Len(captured) /\ Len(captured) \in Nat
        /\ step' # "parse"
    BY <1>4 DEF ReadBss, Invariant, TypeOK, ScanTypeOK
  <2>2. CASE UNCHANGED networks
    <3>1. 1..at \subseteq 1..at'
      BY <2>1
    <3> QED
      BY <2>1, <2>2, <3>1 DEF Listed
  <2>3. ASSUME NEW s \in {"Open", "Wpa2"}, captured[at + 1] \in Named,
               networks' = Append(networks, Network(captured[at + 1], s))
        PROVE  Listed'
    <3>1. captured[at'] \in AP /\ at' \in DOMAIN captured
      BY <2>1 DEF Invariant, TypeOK, ScanTypeOK
    <3>5. networks' = Append(networks, Network(captured[at'], s))
          /\ captured[at'] \in Named /\ captured' = captured
      BY <2>1, <2>3
    <3>2. /\ Network(captured[at'], s) \in WifiNetworkSpec
          /\ Network(captured[at'], s).bss = captured[at']
      BY <3>1, NetworkType
    <3>3. \A k \in 1..at : captured[k] # captured[at']
      <4>1. \A k \in 1..at : k \in DOMAIN captured /\ k # at'
        BY <2>1 DEF Invariant, TypeOK, ScanTypeOK
      <4> QED
        BY <3>1, <4>1 DEF Invariant, Reading
    <3>4. \A i \in DOMAIN networks : networks[i].bss # captured[at']
      BY <3>3 DEF Listed
    <3>6. at' \in 1..Len(captured) /\ ScanTypeOK
      BY <2>1 DEF Invariant, TypeOK
    <3>7. /\ \A i \in DOMAIN networks' :
               \E k \in 1..at' : networks'[i].bss = captured[k] /\ captured[k] \in Named
          /\ \A i, j \in DOMAIN networks' : networks'[i].bss = networks'[j].bss => i = j
      <4>1. PICK e \in WifiNetworkSpec : e = Network(captured[at'], s)
        BY <3>2
      <4>2. PICK n \in 1..Len(captured) : n = at'
        BY <3>6
      <4>3. n >= at /\ n > 0 /\ e.bss = captured[n] /\ captured[n] \in Named
            /\ (\A i \in DOMAIN networks : networks[i].bss # e.bss)
            /\ networks' = Append(networks, e)
        BY <2>1, <3>2, <3>4, <3>5, <4>1, <4>2
      <4>4. /\ \A i \in DOMAIN networks' :
                 \E k \in 1..n : networks'[i].bss = captured[k] /\ captured[k] \in Named
            /\ \A i, j \in DOMAIN networks' : networks'[i].bss = networks'[j].bss => i = j
        BY <3>6, <4>3, AddListed, Zenon
      <4> QED
        BY <4>2, <4>4
    <3> QED
      BY <2>1, <3>5, <3>7 DEF Listed
  <2> QED
    BY <1>4, <2>2, <2>3 DEF ReadBss
<1>5. ASSUME NEW s \in Seq(WifiNetworkSpec), Sort(s), UNCHANGED <<captured, at>>,
             step' # "parse",
             \A i \in DOMAIN s : \E k \in 1..at : s[i].bss = captured[k] /\ captured[k] \in Named,
             \A i, j \in DOMAIN s : s[i].bss = s[j].bss => i = j
      PROVE  Listed'
  <2> DEFINE P == {captured[k] : k \in {n \in 1..at : captured[n] \in Named}}
  <2>1. \A i \in DOMAIN s : s[i].bss \in P
    BY <1>5
  <2>2. /\ \A i \in DOMAIN networks' : networks'[i].bss \in P
        /\ \A i, j \in DOMAIN networks' : networks'[i].bss = networks'[j].bss => i = j
    <3> HIDE DEF P
    <3> QED
      BY <1>5, <2>1, SortListed
  <2> QED
    BY <1>5, <2>2 DEF Listed
<1>6. CASE EndOfBus
  <2>1. /\ networks \in Seq(WifiNetworkSpec) /\ Sort(networks) /\ UNCHANGED <<captured, at>>
        /\ step' # "parse"
    BY <1>6 DEF EndOfBus, Invariant, TypeOK, ScanTypeOK
  <2> QED
    BY <1>5, <2>1 DEF Listed
<1>7. CASE Parse
  <2>1. CASE ReadHeader /\ step' = "parse"
    BY <1>7, <2>1, HeaderLists
  <2>2. CASE ReadLine /\ step' = "parse"
    BY <1>7, <2>2, LineLists
  <2>3. CASE EndOfOutput /\ step' = "done"
    <3>1. /\ flushed \in Seq(WifiNetworkSpec) /\ Sort(flushed) /\ UNCHANGED <<captured, at>>
      BY <2>3, FlushedType DEF EndOfOutput, Invariant, TypeOK
    <3>2. /\ \A i \in DOMAIN flushed :
               \E k \in 1..at : flushed[i].bss = captured[k] /\ captured[k] \in Named
          /\ \A i, j \in DOMAIN flushed : flushed[i].bss = flushed[j].bss => i = j
      BY FlushedListed DEF Invariant
    <3> QED
      BY <1>5, <2>3, <3>1, <3>2
  <2> QED
    BY <1>7, <2>1, <2>2, <2>3 DEF Parse
<1> QED
  BY <1>2, <1>3, <1>4, <1>6, <1>7 DEF Scanning, ScanByBus

LEMMA ListedStep == Invariant /\ Listed /\ [Next]_vars => Listed'
<1> SUFFICES ASSUME Invariant, Listed, [Next]_vars
             PROVE  Listed'
  OBVIOUS
<1>1. CASE \/ Start \/ prepare_wifi_hardware \/ ListLinks \/ NetworkdUnavailable
           \/ InspectLink \/ DetectInterfaces \/ detect_wifi_environment
  BY <1>1, DetectLists
<1>2. CASE Scanning
  BY <1>2, ScanningLists
<1>3. CASE World
  BY <1>3 DEF World, Hear, Forget, Plug, Unplug, Listed, parserVars, detectVars
<1>4. CASE UNCHANGED vars
  BY <1>4 DEF vars, parserVars, detectVars, Listed
<1> QED
  BY <1>1, <1>2, <1>3, <1>4 DEF Next, Program, Scanning

\* From any source and in any order, no access point is listed twice and no
\* hidden one at all.
THEOREM EachListedOnce == Spec => []ListedOnce
<1>1. Init => Invariant /\ Listed
  <2>1. Init => Listed
    BY DEF Init, Listed
  <2> QED
    BY <2>1, InitReads DEF Invariant
<1>2. Listed => ListedOnce
  BY DEF Listed, ListedOnce
<1> QED
  BY <1>1, <1>2, InvariantStep, ListedStep, PTL DEF Spec

-------------------------------------------------------------------------------
LEMMA InvariantAlways == Spec => []Invariant
<1>1. Init => Invariant
  BY InitReads DEF Invariant
<1> QED
  BY <1>1, InvariantStep, PTL DEF Spec

\* The list is shown with the strongest network first.
THEOREM StrongestListedFirst == Spec => []StrongestFirst
<1>1. Init => StrongestFirst
  BY DEF Init, StrongestFirst
<1>2. Invariant /\ StrongestFirst /\ [Next]_vars => StrongestFirst'
  <2> SUFFICES ASSUME Invariant, StrongestFirst, [Next]_vars, step' = "done"
               PROVE  StrongestFirst'
    BY DEF StrongestFirst
  <2>1. CASE EndOfBus
    <3>1. networks \in Seq(WifiNetworkSpec) /\ Sort(networks)
      BY <2>1 DEF EndOfBus, Invariant, TypeOK, ScanTypeOK
    <3> QED
      BY <3>1, SortKeeps DEF StrongestFirst
  <2>2. CASE Parse
    <3>1. EndOfOutput
      BY <2>2 DEF Parse, Invariant, TypeOK, Step, ReadHeader, ReadLine
    <3>2. flushed \in Seq(WifiNetworkSpec) /\ Sort(flushed)
      BY <3>1, FlushedType DEF EndOfOutput, Invariant, TypeOK
    <3> QED
      BY <3>2, SortKeeps DEF StrongestFirst
  <2>3. CASE detect_wifi_environment
    BY <2>3 DEF detect_wifi_environment, Invariant, Reading, Detecting, parserVars,
                StrongestFirst
  <2>4. CASE \E tool \in {"iw", "iwlist"} : ToolFails(tool)
    BY <2>4 DEF ToolFails, Begin, StrongestFirst
  <2>5. CASE World
    BY <2>5 DEF World, Hear, Forget, Plug, Unplug, parserVars, detectVars, StrongestFirst
  <2>6. CASE UNCHANGED vars
    BY <2>6 DEF vars, parserVars, detectVars, StrongestFirst
  <2> QED
    BY <2>1, <2>2, <2>3, <2>4, <2>5, <2>6
    DEF Next, Program, Start, prepare_wifi_hardware, ListLinks, NetworkdUnavailable,
        InspectLink, DetectInterfaces, ScanByBus, ScanByBusFails, ReadBss, RunTool, Execute
<1> QED
  BY <1>1, <1>2, InvariantAlways, PTL DEF Spec

\* A wifi link that was waited for keeps its kind as long as it is there.
Inspected ==
  /\ noticed \subseteq plugged \cap (Wireless \cup WirelessName)
  /\ step = "inspect" => 
       \A l \in noticed \ Virtual : l \in seen \/ (l \in DOMAIN kinds /\ kinds[l] = Wifi)

LEMMA NoticedAreWifi ==
  ASSUME NEW l \in noticed, Inspected
  PROVE  detect_interface_kind(l) = Wifi
BY DEF Inspected, detect_interface_kind

\* Interfaces are listed once each, ethernet before wifi, and a wifi interface
\* that was waited for is listed as one while it is there.
THEOREM InterfacesInOrder == Spec => []InterfacesOrdered
<1>1. Init => Inspected /\ InterfacesOrdered
  BY DEF Init, Inspected, InterfacesOrdered
<1>2. Invariant /\ Inspected /\ [Next]_vars => Inspected'
  <2> SUFFICES ASSUME Invariant, Inspected, [Next]_vars
               PROVE  Inspected'
    OBVIOUS
  <2>1. CASE prepare_wifi_hardware
    <3>1. has_wifi_interface \subseteq plugged \cap (Wireless \cup WirelessName)
      BY DEF has_wifi_interface
    <3> QED
      BY <2>1, <3>1 DEF prepare_wifi_hardware, Inspected
  <2>2. CASE ListLinks
    BY <2>2 DEF ListLinks, Inspected, worldVars
  <2>3. CASE InspectLink
    <3>1. PICK l \in seen :
            /\ seen' = seen \ {l}
            /\ kinds' = IF should_skip_interface(l) THEN kinds
                        ELSE [k \in DOMAIN kinds \cup {l} |->
                                IF k = l THEN detect_interface_kind(l) ELSE kinds[k]]
      BY <2>3 DEF InspectLink
    <3>2. l \in noticed => detect_interface_kind(l) = Wifi
      BY NoticedAreWifi
    <3>3. step = "inspect" /\ UNCHANGED worldVars
      BY <2>3 DEF InspectLink
    <3>4. CASE should_skip_interface(l)
      BY <3>1, <3>3, <3>4 DEF Inspected, should_skip_interface, worldVars
    <3>5. CASE ~should_skip_interface(l)
      BY <3>1, <3>2, <3>3, <3>5 DEF Inspected, worldVars
    <3> QED
      BY <3>4, <3>5
  <2>4. CASE World
    BY <2>4 DEF World, Hear, Forget, Plug, Unplug, parserVars, detectVars, Inspected
  <2>5. CASE UNCHANGED vars
    BY <2>5 DEF vars, detectVars, worldVars, Inspected
  <2>6. CASE Start \/ NetworkdUnavailable \/ DetectInterfaces \/ detect_wifi_environment
    BY <2>6 DEF Start, NetworkdUnavailable, DetectInterfaces, detect_wifi_environment,
                worldVars, Inspected
  <2>7. CASE Scanning
    <3>1. UNCHANGED worldVars /\ step' # "inspect"
      BY <2>7 DEF Scanning, ScanByBus, ScanByBusFails, ReadBss, EndOfBus, RunTool,
                  ToolFails, Parse, Execute, scanOnly
    <3> QED
      BY <3>1 DEF Inspected, worldVars
  <2> QED
    BY <2>1, <2>2, <2>3, <2>4, <2>5, <2>6, <2>7 DEF Next, Program, Scanning
<1>3. Invariant /\ Inspected /\ InterfacesOrdered /\ [Next]_vars => InterfacesOrdered'
  <2> SUFFICES ASSUME Invariant, Inspected, InterfacesOrdered, [Next]_vars,
                      step' = "environment"
               PROVE  InterfacesOrdered'
    BY DEF InterfacesOrdered
  <2>1. CASE DetectInterfaces
    <3>1. PICK p \in [1..Cardinality(DOMAIN kinds) -> DOMAIN kinds] :
            /\ \A i, j \in DOMAIN p : i < j => sort_interfaces(p[i], p[j])
            /\ interfaces' = p
      BY <2>1 DEF DetectInterfaces
    <3>2. UNCHANGED <<kinds, noticed>> /\ step = "inspect" /\ seen = {}
      BY <2>1 DEF DetectInterfaces, worldVars
    <3>3. ASSUME NEW i \in DOMAIN p, NEW j \in DOMAIN p, i < j
          PROVE  /\ p[i] # p[j]
                 /\ kinds[p[i]] = Wifi => kinds[p[j]] = Wifi
      <4>1. sort_interfaces(p[i], p[j])
        BY <3>1, <3>3
      <4>2. p[i] \in Nat /\ p[j] \in Nat
        BY LinkAssumption DEF Invariant, TypeOK
      <4> QED
        BY <4>1, <4>2 DEF sort_interfaces, Ethernet, Wifi
    <3>4. \A l \in noticed \ Virtual : l \in DOMAIN kinds /\ kinds[l] = Wifi
      BY <3>2 DEF Inspected
    <3> QED
      BY <3>1, <3>2, <3>3, <3>4 DEF InterfacesOrdered
  <2>2. CASE World
    BY <2>2 DEF World, Hear, Forget, Plug, Unplug, parserVars, detectVars, InterfacesOrdered
  <2>3. CASE UNCHANGED vars
    BY <2>3 DEF vars, detectVars, worldVars, InterfacesOrdered
  <2>4. CASE Scanning
    BY <2>4 DEF Scanning, ScanByBus, ScanByBusFails, ReadBss, EndOfBus, RunTool,
                ToolFails, Parse, Execute
  <2> QED
    BY <2>1, <2>2, <2>3, <2>4
    DEF Next, Program, Scanning, Start, prepare_wifi_hardware, ListLinks,
        NetworkdUnavailable, InspectLink, detect_wifi_environment
<1> QED
  BY <1>1, <1>2, <1>3, InvariantAlways, PTL DEF Spec

-------------------------------------------------------------------------------
OnList(a, s) ==
  \E i \in DOMAIN s :
    /\ s[i].bss = a
    /\ s[i].signal_strength = Signal[a]
    /\ a \notin LoadFirst => s[i] = Told(a)

\* What was said of the access point whose block is read is in the current_
\* variables until the block is flushed.
Current ==
  step = "parse" /\ at > 0 /\ (line < 2 \/ current_ssid # NoName) =>
    /\ line >= 1 => current_signal = Signal[captured[at]]
    /\ captured[at] \notin LoadFirst =>
         current_security = IF line < 4 THEN "Open" ELSE ToldSecurity(captured[at])

\* What was read is on the list, or current.
Heard ==
  step = "parse" \/ Finished =>
    \A k \in 1..at :
      captured[k] \in Named =>
        \/ k = at /\ step = "parse" /\ line < 2
        \/ current_ssid = captured[k]
        \/ OnList(captured[k], networks)

\* A finished list was read to its end.
AtEnd == Finished => at = Len(captured)

\* A flush puts what is current on the list, whole when the protection was read.
LEMMA FlushedHeard ==
  ASSUME Invariant, Current, Heard, step = "parse",
         line >= 4 \/ captured[at] \in LoadFirst,
         NEW k \in 1..at, captured[k] \in Named, ~(k = at /\ line < 2)
  PROVE  OnList(captured[k], flushed)
<1>1. CASE OnList(captured[k], networks)
  <2>1. CASE current_ssid = NoName
    BY <1>1, <2>1 DEF flushed
  <2>2. CASE current_ssid # NoName
    <3>1. Entry \in WifiNetworkSpec
      BY <2>2, Zenon DEF Entry, WifiNetworkSpec, Invariant, TypeOK, ScanTypeOK
    <3>2. networks \in Seq(WifiNetworkSpec) /\ flushed = Append(networks, Entry)
      BY <2>2 DEF flushed, Invariant, TypeOK, ScanTypeOK
    <3>3. DOMAIN networks \subseteq DOMAIN flushed
          /\ \A i \in DOMAIN networks : flushed[i] = networks[i]
      BY <3>1, <3>2, AddNetwork
    <3> QED
      BY <1>1, <3>3 DEF OnList
  <2> QED
    BY <2>1, <2>2
<1>2. CASE ~OnList(captured[k], networks)
  <2>1. current_ssid = captured[k] /\ captured[k] \in AP /\ current_ssid # NoName
    BY <1>2, RadioAssumption DEF Heard, Invariant, TypeOK, ScanTypeOK, NoName
  <2>2. captured[k] = captured[at] /\ at > 0 /\ line >= 2
    BY <2>1 DEF Invariant, Reading
  <2>3. current_signal = Signal[captured[k]]
    BY <2>1, <2>2 DEF Current, Invariant, TypeOK, ScanTypeOK, LINES
  <2>4. captured[k] \notin LoadFirst => current_security = ToldSecurity(captured[k])
    BY <2>1, <2>2 DEF Current, Invariant, TypeOK, ScanTypeOK, LINES
  <2>5. Entry \in WifiNetworkSpec
    BY <2>1, Zenon DEF Entry, WifiNetworkSpec, Invariant, TypeOK, ScanTypeOK
  <2>6. /\ Entry.bss = captured[k] /\ Entry.signal_strength = Signal[captured[k]]
        /\ captured[k] \notin LoadFirst => Entry = Told(captured[k])
    BY <2>1, <2>3, <2>4 DEF Entry, Told, Network
  <2>7. networks \in Seq(WifiNetworkSpec) /\ flushed = Append(networks, Entry)
    BY <2>1 DEF flushed, Invariant, TypeOK, ScanTypeOK
  <2>8. Len(networks) + 1 \in DOMAIN flushed /\ flushed[Len(networks) + 1] = Entry
    BY <2>5, <2>7, AddNetwork
  <2> QED
    BY <2>6, <2>8 DEF OnList
<1> QED
  BY <1>1, <1>2

LEMMA SortHeard ==
  ASSUME NEW s \in Seq(WifiNetworkSpec), Sort(s), NEW a, OnList(a, s)
  PROVE  OnList(a, networks')
<1>1. PICK p \in [DOMAIN s -> DOMAIN s] :
         /\ DOMAIN networks' = DOMAIN s
         /\ \A k \in DOMAIN s : networks'[k] = s[p[k]]
         /\ \A i \in DOMAIN s : \E k \in DOMAIN s : p[k] = i
  BY SortKeeps
<1> QED
  BY <1>1 DEF OnList

LEMMA HeaderHears ==
  ASSUME Invariant, Current, Heard, Parse, ReadHeader, step' = "parse"
  PROVE  Current' /\ Heard'
<1>1. /\ step = "parse" /\ line = 5 /\ line' = 0 /\ at' = at + 1 /\ networks' = flushed
      /\ at \in Nat /\ UNCHANGED captured
      /\ current_ssid' = NoName /\ current_security' = "Open"
  BY DEF Parse, ReadHeader, ResetCurrent, LINES, Invariant, TypeOK, ScanTypeOK
<1>2. Current'
  BY <1>1 DEF Current
<1>3. ASSUME NEW k \in 1..at', captured[k] \in Named, k # at'
      PROVE  OnList(captured[k], networks')
  <2>1. k \in 1..at
    BY <1>1, <1>3
  <2> QED
    BY <1>1, <1>3, <2>1, FlushedHeard
<1> QED
  BY <1>1, <1>2, <1>3 DEF Heard

LEMMA LineHears ==
  ASSUME Invariant, Current, Heard, Parse, ReadLine, step' = "parse"
  PROVE  Current' /\ Heard'
<1> DEFINE a == captured[at]
<1>1. /\ UNCHANGED <<captured, at, source>> /\ line' = line + 1 /\ line \in 0..4
      /\ at > 0 /\ at \in 1..Len(captured) /\ step = "parse" /\ a \in AP
  BY DEF ReadLine, Invariant, TypeOK, ScanTypeOK, Reading, LINES
<1>2. CASE ReadLoad /\ line' \in {3, 5} /\ Printed(line', a)
  <2>1. networks' = flushed /\ current_ssid' = NoName
    BY <1>2 DEF ReadLoad, ResetCurrent
  <2>2. line >= 4 \/ a \in LoadFirst
    BY <1>1, <1>2 DEF Printed
  <2>3. \A k \in 1..at : captured[k] \in Named => OnList(captured[k], networks')
    BY <1>1, <1>2, <2>1, <2>2, FlushedHeard
  <2> QED
    BY <1>1, <1>2, <2>1, <2>3 DEF Current, Heard
<1>3. CASE line' = 1 /\ ReadSignal(a)
  BY <1>1, <1>3 DEF ReadSignal, Current, Heard
<1>4. CASE line' = 2 /\ ReadSsid(a)
  <2>1. Current'
    BY <1>1, <1>4 DEF ReadSsid, Current
  <2>2. ASSUME NEW k \in 1..at, captured[k] \in Named
        PROVE  current_ssid' = captured[k] \/ OnList(captured[k], networks')
    <3>1. CASE k = at
      BY <1>4, <3>1 DEF ReadSsid
    <3>2. CASE k # at
      <4>1. current_ssid # captured[k]
        <5>1. k \in DOMAIN captured /\ at \in DOMAIN captured /\ captured[k] \in AP
          BY <1>1 DEF Invariant, TypeOK, ScanTypeOK
        <5>2. captured[k] # captured[at]
          BY <3>2, <5>1 DEF Invariant, Reading
        <5>3. captured[k] # NoName
          BY <5>1, RadioAssumption DEF NoName
        <5> QED
          BY <5>2, <5>3 DEF Invariant, Reading
      <4> QED
        BY <1>1, <1>4, <2>2, <3>2, <4>1 DEF Heard, ReadSsid
    <3> QED
      BY <3>1, <3>2
  <2> QED
    BY <1>1, <2>1, <2>2 DEF Heard
<1>5. CASE line' = 4 /\ ReadSecurity(a) /\ Printed(line', a)
  <2>1. a \notin LoadFirst => current_security' = ToldSecurity(a)
    BY <1>5 DEF ReadSecurity, ToldSecurity, Printed
  <2> QED
    BY <1>1, <1>5, <2>1 DEF ReadSecurity, Current, Heard
<1>6. CASE /\ ~Printed(line', a)
         /\ UNCHANGED <<current_ssid, current_signal, current_security, networks>>
  <2>1. line' # 1 /\ (line' = 2 => a \notin Named) /\ (line' = 4 => Protection[a] = "open")
    BY <1>6 DEF Printed
  <2>2. line' = 2 => current_ssid = NoName
    BY <1>1 DEF Invariant, Reading
  <2>3. Current'
    <3>1. CASE line' = 4
      <4>1. ToldSecurity(a) = "Open"
        BY <2>1, <3>1 DEF ToldSecurity
      <4> QED
        BY <1>1, <1>6, <3>1, <4>1 DEF Current
    <3>2. CASE line' # 4
      BY <1>1, <1>6, <2>1, <2>2, <3>2 DEF Current
    <3> QED
      BY <3>1, <3>2
  <2> QED
    BY <1>1, <1>6, <2>1, <2>3 DEF Heard
<1> QED
  BY <1>2, <1>3, <1>4, <1>5, <1>6 DEF ReadLine

LEMMA HeardStep == Invariant /\ Current /\ Heard /\ [Next]_vars => Current' /\ Heard'
<1> SUFFICES ASSUME Invariant, Current, Heard, [Next]_vars
             PROVE  Current' /\ Heard'
  OBVIOUS
<1>1. CASE Parse
  <2>1. CASE ReadHeader /\ step' = "parse"
    BY <1>1, <2>1, HeaderHears
  <2>2. CASE ReadLine /\ step' = "parse"
    BY <1>1, <2>2, LineHears
  <2>3. CASE EndOfOutput /\ step' = "done"
    <3>1. /\ step = "parse" /\ line = 5 /\ UNCHANGED <<captured, at>> /\ Sort(flushed)
          /\ flushed \in Seq(WifiNetworkSpec)
      BY <1>1, <2>3, FlushedType DEF Parse, EndOfOutput, LINES, Invariant, TypeOK
    <3>2. \A k \in 1..at : captured[k] \in Named => OnList(captured[k], flushed)
      BY <3>1, FlushedHeard
    <3>3. \A k \in 1..at : captured[k] \in Named => OnList(captured[k], networks')
      BY <3>1, <3>2, SortHeard
    <3> QED
      BY <2>3, <3>1, <3>3 DEF Current, Heard
  <2> QED
    BY <1>1, <2>1, <2>2, <2>3 DEF Parse
<1>2. ASSUME NEW tool \in Source, NEW l \in Seq(AP), Begin(tool, l)
      PROVE  Current' /\ Heard'
  BY <1>2 DEF Begin, Current, Heard
<1>3. CASE Execute \/ \E tool \in {"iw", "iwlist"} : RunTool(tool) \/ ToolFails(tool)
  <2>1. at' = 0
    BY <1>3 DEF Execute, RunTool, ToolFails, Begin
  <2> QED
    BY <2>1 DEF Current, Heard
<1>4. CASE ScanByBus \/ ScanByBusFails
  <2>1. step' # "parse" /\ step' # "done"
    BY <1>4 DEF ScanByBus, ScanByBusFails
  <2> QED
    BY <2>1 DEF Current, Heard, Finished
<1>5. CASE ReadBss \/ EndOfBus
  <2>1. step' # "parse" /\ source' = "dbus"
    BY <1>5 DEF ReadBss, EndOfBus, Invariant, Reading
  <2> QED
    BY <2>1 DEF Current, Heard, Finished
<1>6. CASE \/ Start \/ prepare_wifi_hardware \/ ListLinks \/ NetworkdUnavailable
           \/ InspectLink \/ DetectInterfaces \/ detect_wifi_environment
  <2>1. step' # "parse" /\ source' = "none"
    BY <1>6 DEF Start, prepare_wifi_hardware, ListLinks, NetworkdUnavailable, InspectLink,
                DetectInterfaces, detect_wifi_environment, parserVars, Invariant, Reading,
                Detecting
  <2> QED
    BY <2>1 DEF Current, Heard, Finished
<1>7. CASE World
  BY <1>7 DEF World, Hear, Forget, Plug, Unplug, Current, Heard, Finished, parserVars, detectVars
<1>8. CASE UNCHANGED vars
  BY <1>8 DEF vars, parserVars, detectVars, Current, Heard, Finished
<1> QED
  BY <1>1, <1>3, <1>4, <1>5, <1>6, <1>7, <1>8 DEF Next, Program

\* When a tool's output is read every access point with a name is on the list
\* with its own strength, and its own protection unless a BSS Load line came
\* before it; no other is.
THEOREM HeardIsListed == Spec => []ListsWhatWasHeard
<1>1. Init => Invariant /\ Listed /\ Current /\ Heard
  <2>1. Init => Listed /\ Current /\ Heard
    BY DEF Init, Listed, Current, Heard, Finished
  <2> QED
    BY <2>1, InitReads DEF Invariant
<1>2. Invariant /\ Listed /\ Heard /\ AtEnd => ListsWhatWasHeard
  <2> SUFFICES ASSUME Invariant, Listed, Heard, AtEnd, Finished
               PROVE  ListsWhatWasHeard
    BY DEF ListsWhatWasHeard
  <2>1. DOMAIN captured = 1..at
    BY DEF AtEnd, Invariant, TypeOK, ScanTypeOK
  <2>2. current_ssid = NoName /\ step = "done"
    BY DEF Invariant, Reading, Finished
  <2>3. \A k \in DOMAIN captured : captured[k] \in Named => OnList(captured[k], networks)
    BY <2>1, <2>2, RadioAssumption DEF Heard, Invariant, TypeOK, ScanTypeOK, NoName
  <2> QED
    BY <2>1, <2>3 DEF Listed, OnList, ListsWhatWasHeard
<1>3. Invariant /\ AtEnd /\ [Next]_vars => AtEnd'
  <2> SUFFICES ASSUME Invariant, AtEnd, [Next]_vars
               PROVE  AtEnd'
    OBVIOUS
  <2>1. CASE Parse
    BY <2>1 DEF Parse, ReadHeader, ReadLine, EndOfOutput, AtEnd, Finished, Invariant, TypeOK, Step
  <2>2. CASE EndOfBus \/ ReadBss
    BY <2>2 DEF EndOfBus, ReadBss, AtEnd, Finished, Invariant, Reading
  <2>3. CASE \/ Start \/ prepare_wifi_hardware \/ ListLinks \/ NetworkdUnavailable
             \/ InspectLink \/ DetectInterfaces \/ detect_wifi_environment
    BY <2>3 DEF Start, prepare_wifi_hardware, ListLinks, NetworkdUnavailable, InspectLink,
                DetectInterfaces, detect_wifi_environment, parserVars, Invariant, Reading,
                Detecting, AtEnd, Finished
  <2>4. CASE World \/ UNCHANGED vars
    BY <2>4 DEF World, Hear, Forget, Plug, Unplug, vars, parserVars, detectVars, AtEnd, Finished
  <2>5. CASE \/ ScanByBus \/ ScanByBusFails \/ Execute
             \/ \E tool \in {"iw", "iwlist"} : RunTool(tool) \/ ToolFails(tool)
    BY <2>5 DEF ScanByBus, ScanByBusFails, Execute, RunTool, ToolFails, Begin, AtEnd, Finished
  <2> QED
    BY <2>1, <2>2, <2>3, <2>4, <2>5 DEF Next, Program
<1>4. Init => AtEnd
  BY DEF Init, AtEnd, Finished
<1> QED
  BY <1>1, <1>2, <1>3, <1>4, InvariantStep, ListedStep, HeardStep, PTL DEF Spec
-------------------------------------------------------------------------------
\* No source lists more access points than there are.
ListsAreShort == Len(captured) <= Cardinality(AP)

LEMMA ListingShort ==
  ASSUME NEW s \in SUBSET AP, NEW l \in Listing(s)
  PROVE  Len(l) <= Cardinality(AP)
<1>1. Cardinality(s) \in Nat /\ Cardinality(s) <= Cardinality(AP)
  BY FS_Subset, FS_CardinalityType, RadioAssumption
<1>2. Len(l) = Cardinality(s)
  BY <1>1 DEF Listing
<1> QED
  BY <1>1, <1>2

LEMMA StaysShort ==
  ASSUME Invariant, ListsAreShort, [Next]_vars
  PROVE  ListsAreShort'
<1>1. ASSUME NEW tool, NEW l \in Listing(heard), Begin(tool, l)
      PROVE  ListsAreShort'
  BY <1>1, ListingShort DEF ListsAreShort, Begin, Invariant, TypeOK, ScanTypeOK
<1>2. ASSUME NEW tool, Begin(tool, <<>>)
      PROVE  ListsAreShort'
  BY <1>2, FS_CardinalityType, RadioAssumption DEF ListsAreShort, Begin
<1>3. CASE UNCHANGED captured
  BY <1>3 DEF ListsAreShort
<1>4. CASE \E tool \in {"iw", "iwlist"} : RunTool(tool) \/ ToolFails(tool)
  BY <1>1, <1>2, <1>4 DEF RunTool, ToolFails
<1>5. CASE ScanByBus
  BY <1>1, <1>3, <1>5 DEF ScanByBus, parserVars
<1>6. CASE Execute
  BY <1>2, <1>6 DEF Execute
<1>7. CASE ReadBss \/ EndOfBus \/ Parse
  BY <1>3, <1>7 DEF ReadBss, EndOfBus, Parse, ReadHeader, ReadLine, EndOfOutput
<1>8. CASE \/ Start \/ prepare_wifi_hardware \/ ListLinks \/ NetworkdUnavailable
           \/ InspectLink \/ DetectInterfaces \/ detect_wifi_environment
           \/ ScanByBusFails \/ World \/ UNCHANGED vars
  BY <1>3, <1>8 DEF Start, prepare_wifi_hardware, ListLinks, NetworkdUnavailable,
     InspectLink, DetectInterfaces, detect_wifi_environment, ScanByBusFails, World, Hear,
     Forget, Plug, Unplug, parserVars, vars
<1> QED
  BY <1>4, <1>5, <1>6, <1>7, <1>8 DEF Next, Program

\* The steps the program may still take until a list is made, or the scan has
\* failed: a block of lines takes one for its header and one for each line.
ParseLongest == 6 * Cardinality(AP) + 1

ScanLongest == ParseLongest + Cardinality(AP) + 5

ListLongest == ScanLongest + Cardinality(Links) + 2

\* Listing the links anew is dearer when networkd's list may be given up on.
AfterListing == IF by_networkd THEN ListLongest ELSE ScanLongest

Left ==
  [done        |-> 0,
   failed      |-> 0,
   parse       |-> 6 * (Len(captured) - at) + 6 - line,
   iwlist      |-> ParseLongest + 1,
   iw          |-> ParseLongest + 2,
   read_bus    |-> ParseLongest + 3 + Len(captured) - at,
   bus         |-> ParseLongest + 4 + Cardinality(AP),
   environment |-> ScanLongest,
   inspect     |-> AfterListing + 1 + Cardinality(seen),
   list        |-> AfterListing + 2 + Cardinality(Links),
   prepare     |-> ListLongest + Cardinality(Links) + PREPARE_ATTEMPTS + 3 - polls,
   start       |-> ListLongest + Cardinality(Links) + PREPARE_ATTEMPTS + 4]

StepsLeft == Left[step]

Longest == ListLongest + Cardinality(Links) + PREPARE_ATTEMPTS + 4

Numbers ==
  /\ Cardinality(AP) \in Nat /\ Cardinality(Links) \in Nat
  /\ Len(captured) \in 0 .. Cardinality(AP) /\ at \in 0 .. Len(captured)
  /\ line \in 0 .. LINES /\ LINES = 5
  /\ polls \in 0 .. PREPARE_ATTEMPTS /\ PREPARE_ATTEMPTS \in Nat
  /\ Cardinality(seen) \in 0 .. Cardinality(Links)
  /\ Cardinality(plugged) \in 0 .. Cardinality(Links)
  /\ \A l \in seen : Cardinality(seen \ {l}) = Cardinality(seen) - 1

LEMMA NumbersAre ==
  ASSUME TypeOK, ListsAreShort
  PROVE  Numbers
<1>1. /\ IsFiniteSet(Links) /\ IsFiniteSet(AP)
      /\ seen \subseteq Links /\ plugged \subseteq Links
  BY RadioAssumption, LinkAssumption DEF TypeOK
<1>2. /\ IsFiniteSet(seen) /\ Cardinality(seen) <= Cardinality(Links)
      /\ IsFiniteSet(plugged) /\ Cardinality(plugged) <= Cardinality(Links)
  BY <1>1, FS_Subset
<1>3. /\ Cardinality(seen) \in Nat /\ Cardinality(plugged) \in Nat
      /\ Cardinality(AP) \in Nat /\ Cardinality(Links) \in Nat
  BY <1>1, <1>2, FS_CardinalityType
<1>4. \A l \in seen : Cardinality(seen \ {l}) = Cardinality(seen) - 1
  BY <1>2, FS_RemoveElement
<1> QED
  BY <1>2, <1>3, <1>4, LinkAssumption DEF TypeOK, ScanTypeOK, LINES, ListsAreShort, Numbers

\* What is left, step by step, without the numbers' definitions.
Equations(left) ==
  /\ step = "done" => left = 0
  /\ step = "failed" => left = 0
  /\ step = "parse" => left = 6 * (Len(captured) - at) + 6 - line
  /\ step = "iwlist" => left = ParseLongest + 1
  /\ step = "iw" => left = ParseLongest + 2
  /\ step = "read_bus" => left = ParseLongest + 3 + Len(captured) - at
  /\ step = "bus" => left = ParseLongest + 4 + Cardinality(AP)
  /\ step = "environment" => left = ScanLongest
  /\ step = "inspect" => left = AfterListing + 1 + Cardinality(seen)
  /\ step = "list" => left = AfterListing + 2 + Cardinality(Links)
  /\ step = "prepare" =>
       left = ListLongest + Cardinality(Links) + PREPARE_ATTEMPTS + 3 - polls
  /\ step = "start" => left = ListLongest + Cardinality(Links) + PREPARE_ATTEMPTS + 4

LEMMA EquationsHold == Equations(StepsLeft)
  BY DEF Equations, StepsLeft, Left

\* With nothing left a list is made, or the scan has failed.
Ended == step \in {"done", "failed"}

LEMMA StepsAreFinite ==
  TypeOK /\ ListsAreShort => StepsLeft \in 0 .. Longest /\ (StepsLeft = 0 => Ended)
<1> SUFFICES ASSUME TypeOK, ListsAreShort
             PROVE  StepsLeft \in 0 .. Longest /\ (StepsLeft = 0 => Ended)
  OBVIOUS
<1>1. step \in Step /\ by_networkd \in BOOLEAN
  BY DEF TypeOK
<1>2. Numbers
  BY NumbersAre
<1>3. /\ Cardinality(AP) \in Nat /\ Cardinality(Links) \in Nat
      /\ ParseLongest = 6 * Cardinality(AP) + 1
      /\ ScanLongest = ParseLongest + Cardinality(AP) + 5
      /\ ListLongest = ScanLongest + Cardinality(Links) + 2
      /\ AfterListing \in {ListLongest, ScanLongest}
      /\ Longest = ListLongest + Cardinality(Links) + PREPARE_ATTEMPTS + 4
      /\ PREPARE_ATTEMPTS \in Nat
  BY <1>1, <1>2 DEF Numbers, AfterListing, ParseLongest, ScanLongest, ListLongest, Longest
<1>4. /\ Len(captured) \in Nat /\ Len(captured) <= Cardinality(AP)
      /\ at \in Nat /\ at <= Len(captured) /\ line \in Nat /\ line <= 5
      /\ polls \in Nat /\ polls <= PREPARE_ATTEMPTS
      /\ Cardinality(seen) \in Nat /\ Cardinality(seen) <= Cardinality(Links)
  BY <1>2 DEF Numbers
<1>5. /\ ParseLongest \in Nat /\ ScanLongest \in Nat /\ ListLongest \in Nat
       /\ Longest \in Nat
  BY <1>3
<1>6. /\ ParseLongest + Cardinality(AP) + 5 <= Longest
       /\ ParseLongest + 3 + Cardinality(AP) <= Longest
  BY <1>3, <1>5
<1>7. /\ AfterListing \in Nat /\ AfterListing <= ListLongest
       /\ ListLongest + Cardinality(Links) + PREPARE_ATTEMPTS + 4 = Longest
  BY <1>3, <1>5
<1>8. Cardinality(AP) \in Nat /\ Cardinality(Links) \in Nat /\ PREPARE_ATTEMPTS \in Nat
  BY <1>3
<1>9. CASE step = "parse"
  <2>1. StepsLeft = 6 * (Len(captured) - at) + 6 - line
    BY <1>9, EquationsHold DEF Equations
  <2>2. Len(captured) - at \in Nat /\ Len(captured) - at <= Cardinality(AP)
    BY <1>4, <1>8
  <2>3. /\ 6 * (Len(captured) - at) \in Nat
        /\ 6 * (Len(captured) - at) <= 6 * Cardinality(AP)
    BY <1>8, <2>2
  <2>4. StepsLeft \in Nat \ {0} /\ StepsLeft <= 6 * Cardinality(AP) + 6
    BY <1>4, <1>8, <2>1, <2>3
  <2>5. 6 * Cardinality(AP) + 6 <= Longest
    BY <1>3
  <2> QED
    BY <1>5, <1>8, <2>4, <2>5
<1>10. CASE step = "read_bus"
  <2>1. StepsLeft = ParseLongest + 3 + Len(captured) - at
    BY <1>10, EquationsHold DEF Equations
  <2>2. StepsLeft \in Nat \ {0} /\ StepsLeft <= ParseLongest + 3 + Cardinality(AP)
    BY <1>4, <1>5, <1>8, <2>1
  <2> QED
    BY <1>5, <1>6, <1>8, <2>2
<1>11. CASE step \in {"done", "failed"}
  <2>1. StepsLeft = 0
    BY <1>11, EquationsHold DEF Equations
  <2> QED
    BY <1>5, <1>11, <2>1 DEF Ended
<1>12. CASE step \in {"iwlist", "iw", "bus", "environment"}
  <2>1. StepsLeft \in {ParseLongest + 1, ParseLongest + 2,
                       ParseLongest + 4 + Cardinality(AP), ScanLongest}
    BY <1>12, EquationsHold DEF Equations
  <2> QED
    BY <1>3, <1>5, <1>6, <2>1
<1>13. CASE step \in {"inspect", "list"}
  <2>1. StepsLeft \in {AfterListing + 1 + Cardinality(seen),
                       AfterListing + 2 + Cardinality(Links)}
    BY <1>13, EquationsHold DEF Equations
  <2> QED
    BY <1>4, <1>5, <1>7, <1>8, <2>1
<1>14. CASE step \in {"prepare", "start"}
  <2>1. StepsLeft \in {ListLongest + Cardinality(Links) + PREPARE_ATTEMPTS + 3 - polls,
                       ListLongest + Cardinality(Links) + PREPARE_ATTEMPTS + 4}
    BY <1>14, EquationsHold DEF Equations
  <2> QED
    BY <1>4, <1>5, <1>7, <1>8, <2>1
<1> QED
  BY <1>1, <1>9, <1>10, <1>11, <1>12, <1>13, <1>14 DEF Step

LEMMA ProgramCounts ==
  ASSUME TypeOK, ListsAreShort, TypeOK', ListsAreShort', Program
  PROVE  StepsLeft' < StepsLeft
<1> DEFINE A == Cardinality(AP)
           L == Cardinality(Links)
           n == Len(captured)
<1>1. Numbers
  BY NumbersAre
<1>2. /\ A \in Nat /\ L \in Nat /\ PREPARE_ATTEMPTS \in Nat
      /\ ParseLongest = 6 * A + 1
      /\ ScanLongest = ParseLongest + A + 5
      /\ ListLongest = ScanLongest + L + 2
  BY <1>1 DEF Numbers, ParseLongest, ScanLongest, ListLongest
<1>3. /\ n \in 0 .. A /\ at \in 0 .. n
      /\ line \in 0 .. 5 /\ polls \in 0 .. PREPARE_ATTEMPTS
  BY <1>1 DEF Numbers
<1>4. n' \in 0 .. A
  BY <1>2 DEF TypeOK, ScanTypeOK, ListsAreShort
<1>5. Equations(StepsLeft)
  BY EquationsHold
<1>6. /\ step' = "done" => StepsLeft' = 0
      /\ step' = "failed" => StepsLeft' = 0
      /\ step' = "parse" => StepsLeft' = 6 * (n' - at') + 6 - line'
      /\ step' = "iwlist" => StepsLeft' = ParseLongest + 1
      /\ step' = "iw" => StepsLeft' = ParseLongest + 2
      /\ step' = "read_bus" => StepsLeft' = ParseLongest + 3 + n' - at'
      /\ step' = "bus" => StepsLeft' = ParseLongest + 4 + A
      /\ step' = "environment" => StepsLeft' = ScanLongest
      /\ step' = "inspect" => StepsLeft' = AfterListing' + 1 + Cardinality(seen')
      /\ step' = "list" => StepsLeft' = AfterListing' + 2 + L
      /\ step' = "prepare" => StepsLeft' = ListLongest + L + PREPARE_ATTEMPTS + 3 - polls'
      /\ step' = "start" => StepsLeft' = ListLongest + L + PREPARE_ATTEMPTS + 4
  BY DEF StepsLeft, Left, ParseLongest, ScanLongest, ListLongest
<1>7. /\ AfterListing = IF by_networkd THEN ListLongest ELSE ScanLongest
      /\ AfterListing' = IF by_networkd' THEN ListLongest ELSE ScanLongest
  BY DEF AfterListing, ParseLongest, ScanLongest, ListLongest
<1>8. by_networkd \in BOOLEAN /\ by_networkd' \in BOOLEAN
  BY DEF TypeOK
<1> HIDE DEF A, L, n
<1>10. CASE Start
  BY <1>2, <1>5, <1>6, <1>7, <1>8, <1>10, <1>3 DEF Start, Equations, L
<1>11. CASE prepare_wifi_hardware
  <2>1. StepsLeft = ListLongest + L + PREPARE_ATTEMPTS + 3 - polls
    BY <1>5, <1>11 DEF Equations, prepare_wifi_hardware, L
  <2>2. CASE step' = "list"
    BY <1>2, <1>3, <1>6, <1>7, <1>8, <2>1, <2>2
  <2>3. CASE step' = "prepare" /\ polls' = polls + 1
    BY <1>2, <1>3, <1>6, <2>1, <2>3
  <2> QED
    BY <1>11, <2>2, <2>3 DEF prepare_wifi_hardware, PollAgain
<1>12. CASE ListLinks
  <2>1. Cardinality(seen') \in 0 .. L
    BY <1>1, <1>12 DEF Numbers, ListLinks, L
  <2>2. step = "list" /\ step' = "inspect" /\ AfterListing' = AfterListing
    BY <1>7, <1>12 DEF ListLinks
  <2>3. AfterListing \in Int
    BY <1>2, <1>7, <1>8
  <2> QED
    BY <1>2, <1>5, <1>6, <2>1, <2>2, <2>3 DEF Equations, L
<1>13. CASE NetworkdUnavailable
  <2>1. step = "list" /\ step' = "list" /\ by_networkd /\ ~by_networkd'
    BY <1>13 DEF NetworkdUnavailable
  <2> QED
    BY <1>2, <1>5, <1>6, <1>7, <2>1 DEF Equations, L
<1>14. CASE InspectLink
  <2>1. PICK l \in seen : seen' = seen \ {l}
    BY <1>14 DEF InspectLink
  <2>2. Cardinality(seen') = Cardinality(seen) - 1 /\ Cardinality(seen) \in Int
    BY <1>1, <2>1 DEF Numbers
  <2>3. step = "inspect" /\ step' = "inspect" /\ AfterListing' = AfterListing
    BY <1>7, <1>14 DEF InspectLink
  <2>4. AfterListing \in Int
    BY <1>2, <1>7, <1>8
  <2> QED
    BY <1>5, <1>6, <2>2, <2>3, <2>4 DEF Equations
<1>15. CASE DetectInterfaces
  <2>1. step = "inspect" /\ Cardinality(seen) = 0
    BY <1>15, FS_EmptySet DEF DetectInterfaces
  <2>2. StepsLeft = AfterListing + 1
    <3>1. AfterListing \in Int
      BY <1>2, <1>7, <1>8
    <3> QED
      BY <1>5, <2>1, <3>1 DEF Equations
  <2>3. \/ step' = "list" /\ by_networkd /\ ~by_networkd'
        \/ step' = "environment"
    BY <1>15 DEF DetectInterfaces
  <2> QED
    BY <1>2, <1>6, <1>7, <1>8, <2>2, <2>3
<1>16. CASE detect_wifi_environment
  <2>1. step = "environment" /\ step' \in {"bus", "done"}
    BY <1>16 DEF detect_wifi_environment
  <2> QED
    BY <1>2, <1>5, <1>6, <2>1 DEF Equations
<1>17. CASE ScanByBus \/ ScanByBusFails
  <2>1. step = "bus" /\ (step' = "iw" \/ (step' = "read_bus" /\ at' = 0))
    BY <1>17 DEF ScanByBus, ScanByBusFails, Begin
  <2> QED
    BY <1>2, <1>4, <1>5, <1>6, <2>1 DEF Equations, A
<1>18. CASE ReadBss
  <2>1. step = "read_bus" /\ step' = "read_bus" /\ at' = at + 1 /\ n' = n
    BY <1>18 DEF ReadBss, n
  <2> QED
    BY <1>2, <1>3, <1>5, <1>6, <2>1 DEF Equations, n
<1>19. CASE EndOfBus
  <2>1. step = "read_bus" /\ step' \in {"iw", "done"} /\ at = n
    BY <1>19 DEF EndOfBus, n
  <2> QED
    BY <1>2, <1>3, <1>5, <1>6, <2>1 DEF Equations, n
<1>20. ASSUME NEW tool \in {"iw", "iwlist"}, RunTool(tool) \/ ToolFails(tool)
       PROVE  StepsLeft' < StepsLeft
  <2>1. /\ step = tool
        /\ \/ step' = "parse" /\ at' = 0 /\ line' = 5
           \/ step' = "iwlist" /\ tool = "iw"
           \/ step' \in {"done", "failed"}
    BY <1>20 DEF RunTool, ToolFails, Begin, LINES
  <2> QED
    BY <1>2, <1>4, <1>5, <1>6, <2>1 DEF Equations
<1>21. CASE Parse
  <2>1. CASE step' = "done"
    BY <1>2, <1>3, <1>5, <1>6, <1>21, <2>1 DEF Equations, Parse, n
  <2>2. CASE /\ step' = "parse" /\ n' = n
             /\ \/ line = 5 /\ line' = 0 /\ at' = at + 1
                \/ line' = line + 1 /\ at' = at
    <3>1. StepsLeft = 6 * (n - at) + 6 - line
      BY <1>5, <1>21 DEF Equations, Parse, n
    <3>2. StepsLeft' = 6 * (n - at') + 6 - line'
      BY <1>6, <2>2
    <3> QED
      BY <1>2, <1>3, <2>2, <3>1, <3>2
  <2> QED
    BY <1>21, <2>1, <2>2 DEF Parse, ReadHeader, ReadLine, EndOfOutput, LINES, n
<1> QED
  BY <1>10, <1>11, <1>12, <1>13, <1>14, <1>15, <1>16, <1>17, <1>18, <1>19, <1>20, <1>21
     DEF Program

\* Only another scan gives the program more to do.
StepsCounted ==
  [][/\ Program => StepsLeft' < StepsLeft
     /\ World => StepsLeft' = StepsLeft]_vars

\* For any access points, links and attempts: detecting the hardware, and every
\* scan after it, takes no more steps than there are attempts, links and lines
\* to look at, whatever is plugged in, pulled out or heard meanwhile; with none
\* left there is a list, or the scan has failed.
THEOREM DetectionBounded ==
  Spec => [](StepsLeft \in 0 .. Longest /\ (StepsLeft = 0 => Ended)) /\ StepsCounted
<1>1. Init => ListsAreShort
  BY FS_CardinalityType, RadioAssumption DEF Init, ListsAreShort
<1>2. Invariant /\ ListsAreShort /\ [Next]_vars => ListsAreShort'
  BY StaysShort
<1>3. Invariant /\ ListsAreShort /\ Invariant' /\ ListsAreShort' /\ [Next]_vars =>
        [/\ Program => StepsLeft' < StepsLeft
         /\ World => StepsLeft' = StepsLeft]_vars
  <2> SUFFICES ASSUME Invariant, ListsAreShort, Invariant', ListsAreShort'
               PROVE  /\ Program => StepsLeft' < StepsLeft
                      /\ World => StepsLeft' = StepsLeft
    OBVIOUS
  <2>1. Program => StepsLeft' < StepsLeft
    BY ProgramCounts DEF Invariant
  <2>2. World => StepsLeft' = StepsLeft
    BY DEF World, Hear, Forget, Plug, Unplug, parserVars, detectVars, StepsLeft, Left,
       AfterListing
  <2> QED
    BY <2>1, <2>2
<1>4. Invariant /\ ListsAreShort => StepsLeft \in 0 .. Longest /\ (StepsLeft = 0 => Ended)
  BY StepsAreFinite DEF Invariant
<1> QED
  BY <1>1, <1>2, <1>3, <1>4, InvariantAlways, PTL DEF Spec, StepsCounted
=============================================================================
