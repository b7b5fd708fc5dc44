------------------------------ MODULE WifiScan ------------------------------
(***************************************************************************)
(* How the list of wifi networks is made: from wpa_supplicant's BSS        *)
(* objects over D-Bus, or from what `iw' or `iwlist' print, a block of     *)
(* lines per access point, read line by line by parse_iw_scan and          *)
(* parse_iwlist_scan.  The radio hears access points and forgets them all  *)
(* the while.                                                              *)
(***************************************************************************)
EXTENDS Integers, Sequences, FiniteSets

CONSTANTS
  AP,         \* access points, positive numbers
  Named,      \* those that announce a name; the others are hidden
  Signal,     \* [AP -> Int], in dBm
  Protection, \* [AP -> {"open", "wep", "wpa", "rsn"}]
  LoadFirst,  \* those whose "BSS Load:" line precedes their "RSN:" line
  LoadLast,   \* those whose "BSS Load:" line follows it
  WEAKEST     \* -100, the strength of a network that reports none

ASSUME RadioAssumption ==
  /\ AP \subseteq Nat \ {0} /\ IsFiniteSet(AP)
  /\ Named \subseteq AP
  /\ Signal \in [AP -> Int]
  /\ Protection \in [AP -> {"open", "wep", "wpa", "rsn"}]
  /\ LoadFirst \subseteq AP /\ LoadLast \subseteq AP
  /\ WEAKEST \in Int

NoName == 0   \* current_ssid = None

\* Everything but the name's spelling and the frequency; `bss' stands for the
\* ssid: the access point it came from.
WifiNetworkSpec ==
  [bss : AP, signal_strength : Int, security : {"Open", "Wep", "Wpa2"}]

Source == {"none", "dbus", "iw", "iwlist"}

VARIABLES
  source,            \* what is being read
  captured,          \* access points in the order the source lists them
  at,                \* the one that is read
  line,              \* how many of its lines were read
  current_ssid, current_signal, current_security,
  networks,          \* listed so far
  heard              \* access points the radio knows at this moment

parserVars == <<source, captured, at, line, current_ssid, current_signal,
                current_security, networks>>

\* The lines of a block that the parsers know, in the order of the tools: the
\* strength, the name, and a BSS Load before or after the protection.
LINES == 5

ScanTypeOK ==
  /\ source \in Source
  /\ captured \in Seq(AP)
  /\ at \in 0..Len(captured)
  /\ line \in 0..LINES
  /\ current_ssid \in AP \cup {NoName}
  /\ current_signal \in Int
  /\ current_security \in {"Open", "Wep", "Wpa2"}
  /\ networks \in Seq(WifiNetworkSpec)
  /\ heard \subseteq AP
----------------------------------------------------------------------------
\* Whether an access point's block has a line.  A hidden one prints "SSID:" or
\* ESSID:"", which changes nothing; iwlist reports no load.
Printed(k, a) ==
  /\ k = 2 => a \in Named
  /\ k = 3 => source = "iw" /\ a \in LoadFirst
  /\ k = 4 => Protection[a] # "open"
  /\ k = 5 => source = "iw" /\ a \in LoadLast

Network(a, security) ==
  [bss |-> a, signal_strength |-> Signal[a], security |-> security]

\* An order in which a source may list the access points it knows.
Listing(s) ==
  {l \in [1..Cardinality(s) -> s] : \A i, j \in DOMAIN l : l[i] = l[j] => i = j}

Begin(tool, l) ==
  /\ source' = tool /\ captured' = l /\ at' = 0 /\ line' = LINES
  /\ current_ssid' = NoName /\ current_signal' = WEAKEST
  /\ current_security' = "Open"
  /\ networks' = <<>>

Entry ==
  [bss |-> current_ssid, signal_strength |-> current_signal,
   security |-> current_security]

\* A network with a name is listed when its block ends.
flushed == IF current_ssid = NoName THEN networks ELSE Append(networks, Entry)

\* Mutant: what one block said of its security holds for the next.
ResetName ==
  /\ current_ssid' = NoName
  /\ UNCHANGED <<current_signal, current_security>>

\* Mutant: current_ssid.clone() in place of take().
ResetKeepingName ==
  /\ UNCHANGED current_ssid
  /\ current_signal' = WEAKEST
  /\ current_security' = "Open"

ResetCurrent ==
  /\ current_ssid' = NoName
  /\ current_signal' = WEAKEST
  /\ current_security' = "Open"

\* A line that starts with "BSS " or "Cell ".
ReadHeader ==
  /\ source \in {"iw", "iwlist"} /\ line = LINES /\ at < Len(captured)
  /\ networks' = flushed
  /\ ResetCurrent
  /\ at' = at + 1
  /\ line' = 0
  /\ UNCHANGED <<source, captured>>

ReadSignal(a) ==
  /\ current_signal' = Signal[a]
  /\ UNCHANGED <<current_ssid, current_security, networks>>

ReadSsid(a) ==
  /\ current_ssid' = a
  /\ UNCHANGED <<current_signal, current_security, networks>>

\* "BSS Load:" starts with "BSS " as well.
ReadLoad ==
  /\ networks' = flushed
  /\ ResetCurrent

ReadSecurity(a) ==
  /\ current_security' = IF Protection[a] = "wep" THEN "Wep" ELSE "Wpa2"
  /\ UNCHANGED <<current_ssid, current_signal, networks>>

\* One turn of the loop over the lines of a block; one that is not there is
\* passed over.
ReadLine ==
  /\ line < LINES
  /\ line' = line + 1
  /\ LET a == captured[at]
     IN  \/ /\ ~Printed(line', a)
            /\ UNCHANGED <<current_ssid, current_signal, current_security, networks>>
         \/ /\ Printed(line', a)
            /\ \/ line' = 1 /\ ReadSignal(a)
               \/ line' = 2 /\ ReadSsid(a)
               \/ line' = 4 /\ ReadSecurity(a)
               \/ line' \in {3, 5} /\ ReadLoad
  /\ UNCHANGED <<source, captured, at>>

Stronger(x, y) == x.signal_strength > y.signal_strength

\* Mutant: the comparison without Reverse.
Weaker(x, y) == x.signal_strength < y.signal_strength

before(x, y) == Stronger(x, y)

\* sort_by_key(Reverse(signal_strength)), which keeps the order of equals: the
\* permutations that put the list in order.
Orders(s) ==
  {p \in [DOMAIN s -> DOMAIN s] :
     /\ \A i \in DOMAIN s : \E k \in DOMAIN s : p[k] = i
     /\ \A k, l \in DOMAIN s :
          k < l => /\ p[k] # p[l]
                   /\ before(s[p[k]], s[p[l]])
                      \/ (~before(s[p[l]], s[p[k]]) /\ p[k] < p[l])}

Sort(s) == \E p \in Orders(s) : networks' = [k \in DOMAIN s |-> s[p[k]]]

\* The loops end: the last network is listed and the list is sorted.
EndOfOutput ==
  /\ source \in {"iw", "iwlist"} /\ line = LINES /\ at = Len(captured)
  /\ Sort(flushed)
  /\ current_ssid' = NoName
  /\ UNCHANGED <<source, captured, at, line, current_signal, current_security>>
----------------------------------------------------------------------------
\* What the tool says of an access point when nothing splits its block.
ToldSecurity(a) ==
  IF Protection[a] = "open" THEN "Open" ELSE IF Protection[a] = "wep" THEN "Wep" ELSE "Wpa2"

Told(a) == Network(a, ToldSecurity(a))
=============================================================================
