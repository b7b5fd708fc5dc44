------------------------------ MODULE Networkd ------------------------------
(***************************************************************************)
(* Bringing an interface online with the systemd executor                  *)
(* (engine/real_ops/network.rs), as the state machine drives it, in one    *)
(* session after another of a machine that may restart at any moment.      *)
(* The program writes 80-ttyforce-<interface>.network units; networkd      *)
(* reads them when it is told to, and gets addresses and routes on its own.*)
(***************************************************************************)
EXTENDS Integers, FiniteSets

CONSTANTS
  Interfaces,
  Persisted,     \* those with a 20-<interface>.network unit, which an install
                 \* from the initrd left and networkd reads first
  Given,         \* contents of a unit that was there before
  IP_ATTEMPTS, ROUTE_ATTEMPTS,   \* 30, 15
  MAX_RETRIES,   \* of each check of the state machine
  SESSIONS, RESTARTS   \* bounds for model checking

\* What the text of a unit may contain: the section and a metric set in it; the
\* section's name or "RouteMetric=" where they set nothing, as in a comment; a
\* metric of another section; and whatever else there is.
Setting == {"DHCP=yes", "[DHCPv4]", "RouteMetric=100", "RouteMetric=n",
            "#[DHCPv4]", "#RouteMetric=", "other RouteMetric=", "other"}

Unit == {unit \in SUBSET Setting :
           unit \cap {"RouteMetric=100", "RouteMetric=n"} # {} => "[DHCPv4]" \in unit}

ASSUME NetworkdAssumption ==
  /\ IsFiniteSet(Interfaces)
  /\ Persisted \subseteq Interfaces
  /\ Given \subseteq Unit
  /\ IP_ATTEMPTS \in Nat /\ ROUTE_ATTEMPTS \in Nat /\ MAX_RETRIES \in Nat
  /\ SESSIONS \in Nat /\ RESTARTS \in Nat

\* A unit that is not there, or was cut short when it was opened for writing.
NoUnit == {}

\* Between two iterations of the event loop a session is in one of these; the
\* other phases are inside an operation.
Between == {"choose", "enable", "link", "address", "router", "internet", "dns",
            "primary", "online", "error"}

\* In these a tick has something to do.
Ticking == Between \ {"choose", "online", "error"}

Inside == {"truncate", "fill", "reload", "reconfigure", "await_ip", "await_route",
           "shutdown", "cleanup"}

VARIABLES
  units,      \* the files, by interface
  loaded,     \* what networkd has read of them
  up,         \* links that are managed up
  lease,      \* of each link: "none", "address" or "route"
  phase,
  op,         \* the operation inside which phase is: "dhcp", "select" or "none"
  iface,      \* selected_interface
  left,       \* where the session goes after the tick under way: "on", or after
              \* a key that left, "choose", "idle" or "aborted"
  network_state,   \* the phase an abort came from
  content,    \* what is about to be written
  polls,      \* attempts of a wait or of a check
  recorded,   \* interfaces of the ConfigureDhcp and SelectPrimaryInterface
              \* operations in the action manifest
  enabled,    \* interfaces the session enabled
  todo,       \* of cleanup
  sessions, restarts,
  touched,    \* history: units the session opened for writing, ...
  late,       \* history: ... those in the tick that follows its abort
  kept,       \* history: units cleanup could not remove
  selected    \* history: where SelectPrimaryInterface succeeded in this bring-up

linkVars == <<up, lease>>
sessionVars == <<op, iface, content, recorded, enabled, todo, network_state>>
pastVars == <<sessions, restarts, touched, late, kept>>
historyVars == <<pastVars, selected>>
vars == <<units, loaded, linkVars, phase, left, polls, sessionVars, historyVars>>

TypeOK ==
  /\ units \in [Interfaces -> Unit]
  /\ loaded \in [Interfaces -> Unit]
  /\ up \subseteq Interfaces
  /\ lease \in [Interfaces -> {"none", "address", "route"}]
  /\ phase \in Between \cup Inside \cup {"idle", "aborted"}
  /\ op \in {"dhcp", "select", "none"}
  /\ left \in {"on", "choose", "idle", "aborted"} /\ network_state \in Between
  /\ iface \in Interfaces
  /\ content \in Unit
  /\ polls \in Nat
  /\ phase = "await_ip" => polls <= IP_ATTEMPTS
  /\ phase = "await_route" => polls <= ROUTE_ATTEMPTS
  /\ phase \in Between => polls <= MAX_RETRIES
  /\ recorded \subseteq Interfaces /\ enabled \subseteq Interfaces
  /\ todo \subseteq recorded
  /\ sessions \in Nat /\ restarts \in Nat
  /\ touched \subseteq Interfaces /\ late \subseteq Interfaces
  /\ kept \subseteq Interfaces
  /\ selected \subseteq Interfaces

\* networkd brings up, when it starts, what it finds configured.
Booted == Persisted \cup {i \in Interfaces : units[i] # NoUnit}

Init ==
  /\ units \in [Interfaces -> Given] /\ loaded = units
  /\ up = Booted
  /\ lease = [i \in Interfaces |-> "none"]
  /\ phase = "idle" /\ left = "on" /\ network_state = "choose"
  /\ op = "none" /\ iface \in Interfaces /\ content = NoUnit
  /\ polls = 0
  /\ recorded = {} /\ enabled = {} /\ todo = {}
  /\ sessions = 0 /\ restarts = 0
  /\ touched = {} /\ late = {} /\ kept = {} /\ selected = {}
----------------------------------------------------------------------------
\* Configuration.

generate_dhcp_network_config == {"DHCP=yes", "[DHCPv4]"}

ContainsSection(unit) == unit \cap {"[DHCPv4]", "#[DHCPv4]"} # {}

ContainsMetric(unit) ==
  unit \cap {"RouteMetric=100", "RouteMetric=n", "#RouteMetric=", "other RouteMetric="} # {}

\* Each line that starts with a metric is replaced, in its section.
replace_metric(unit) ==
  IF "RouteMetric=n" \in unit THEN (unit \ {"RouteMetric=n"}) \cup {"RouteMetric=100"}
                             ELSE unit

\* A line is put behind each mention of the section.
insert_metric(unit) ==
  unit \cup {m \in {"RouteMetric=100"} : "[DHCPv4]" \in unit}
       \cup {m \in {"other RouteMetric="} : "#[DHCPv4]" \in unit}

\* Mutant: a metric that is there is left alone.
merge_adding(existing) ==
  IF existing = NoUnit THEN generate_dhcp_network_config \cup {"RouteMetric=100"}
                       ELSE existing \cup {"[DHCPv4]", "RouteMetric=100"}

merge_primary_interface_config(existing) ==
  CASE existing = NoUnit -> generate_dhcp_network_config \cup {"RouteMetric=100"}
    [] existing # NoUnit /\ ~ContainsSection(existing) ->
         existing \cup {"[DHCPv4]", "RouteMetric=100"}
    [] ContainsSection(existing) /\ ContainsMetric(existing)  -> replace_metric(existing)
    [] ContainsSection(existing) /\ ~ContainsMetric(existing) -> insert_metric(existing)

\* networkd configures a link by the first unit that matches it.
InForce(i) == IF i \in Persisted THEN {"DHCP=yes"} ELSE loaded[i]

\* A link that is configured anew may lose its lease, and lose it for good.
MayLose(is) ==
  lease' \in {[i \in Interfaces |-> IF i \in s THEN "none" ELSE lease[i]] : s \in SUBSET is}

----------------------------------------------------------------------------
\* The state machine between operations.

StartSession ==
  /\ phase \in {"idle", "aborted"} /\ sessions < SESSIONS
  /\ phase' = "choose"
  /\ sessions' = sessions + 1
  /\ recorded' = {} /\ enabled' = {} /\ polls' = 0
  /\ touched' = {} /\ late' = {} /\ kept' = {}
  /\ selected' = {}
  /\ UNCHANGED <<units, loaded, linkVars, op, iface, left, network_state, content, todo,
                 restarts>>

\* An interface with link and carrier is not enabled first.
ChooseInterface(i) ==
  /\ phase = "choose"
  /\ iface' = i
  /\ phase' \in {"enable", "link"}
  /\ polls' = 0 /\ selected' = {}
  /\ UNCHANGED <<units, loaded, linkVars, op, left, network_state, content, recorded,
                 enabled, todo, pastVars>>

\* A tick ends: the bring-up goes on, unless the key before it left.
Then(next) ==
  /\ phase' = IF left = "on" THEN next ELSE left
  /\ left' = "on"

\* networkctl up.
enable_interface ==
  /\ phase = "enable"
  /\ \/ /\ Then("link")
        /\ up' = up \cup {iface}
        /\ enabled' = enabled \cup {iface}
     \/ Then("error") /\ UNCHANGED <<up, enabled>>
  /\ UNCHANGED <<units, loaded, lease, op, iface, network_state, content, polls, recorded,
                 todo, historyVars>>

\* Mutant: the failures so far count against the next check.
PassesCounting(next) == Then(next) /\ polls' = polls

\* A check that fails is retried up to a limit.
Passes(next) == Then(next) /\ polls' = 0

Fails == IF polls + 1 >= MAX_RETRIES
         THEN Then("error") /\ polls' = 0
         ELSE Then(phase) /\ polls' = polls + 1

onlyChecked == UNCHANGED <<units, loaded, linkVars, sessionVars, historyVars>>

\* A carrier by networkd, or else by sysfs.
check_link_availability ==
  /\ phase = "link"
  /\ \E networkd, sysfs \in BOOLEAN :
       IF networkd \/ sysfs THEN Passes("address") ELSE Fails
  /\ onlyChecked

\* networkd's answer only says whether to trust `ip', which is always asked.
check_ip_address(i) == lease[i] # "none"

check_default_route(i) == lease[i] = "route"

\* DhcpConfiguring: an interface that has an address is not configured.
AlreadyHasIp ==
  /\ phase = "address" /\ check_ip_address(iface)
  /\ Passes("router")
  /\ onlyChecked

ConfigureDhcp ==
  /\ phase = "address" /\ ~check_ip_address(iface)
  /\ phase' = "truncate" /\ op' = "dhcp" /\ content' = generate_dhcp_network_config
  /\ polls' = 0
  /\ UNCHANGED <<units, loaded, linkVars, iface, left, network_state, recorded, enabled,
                 todo, historyVars>>

check_upstream_router ==
  /\ phase = "router"
  /\ IF check_default_route(iface) THEN Passes("internet") ELSE Fails
  /\ onlyChecked

\* One of the public resolvers answers, or none does.
check_internet_routability ==
  /\ phase = "internet"
  /\ Passes("dns") \/ Fails
  /\ onlyChecked

\* resolved is believed when it has an answer, even that there is none; if it
\* cannot be asked, dig and then getent are.
check_dns_resolution ==
  /\ phase = "dns"
  /\ \E resolved \in {"resolves", "none", "unavailable"}, dig, getent \in BOOLEAN :
       IF resolved = "resolves" \/ (resolved = "unavailable" /\ (dig \/ getent))
       THEN Passes("primary") ELSE Fails
  /\ onlyChecked

\* The unit is read before it is written; one that cannot be read counts as empty.
select_primary_interface ==
  /\ phase = "primary"
  /\ phase' = "truncate" /\ op' = "select"
  /\ \E existing \in {units[iface], NoUnit} :
       content' = merge_primary_interface_config(existing)
  /\ polls' = 0
  /\ UNCHANGED <<units, loaded, linkVars, iface, left, network_state, recorded, enabled,
                 todo, historyVars>>
----------------------------------------------------------------------------
\* Inside ConfigureDhcp and SelectPrimaryInterface.

\* Mutant: only what succeeded is recorded.
RecordSuccess(result) == recorded' = IF result THEN recorded \cup {iface} ELSE recorded

Record(result) == recorded' = recorded \cup {iface}

\* The operation returns.  A failed DHCP is an error; the result of
\* SelectPrimaryInterface is only recorded.
Return(result) ==
  /\ Record(result)
  /\ polls' = 0 /\ op' = "none" /\ content' = NoUnit
  /\ IF op = "select" THEN phase' = "shutdown" /\ UNCHANGED left
     ELSE Then(IF result THEN "router" ELSE "error")
  /\ selected' = IF op = "select" /\ result THEN {iface} ELSE {}

\* fs::write opens the file, which empties it, ...
Truncate ==
  /\ phase = "truncate"
  /\ \/ /\ units' = [units EXCEPT ![iface] = NoUnit]
        /\ IF left = "aborted" THEN late' = late \cup {iface} /\ UNCHANGED touched
                               ELSE touched' = touched \cup {iface} /\ UNCHANGED late
        /\ phase' = "fill"
        /\ UNCHANGED <<polls, op, left, content, recorded, selected>>
     \/ Return(FALSE) /\ UNCHANGED <<units, touched, late>>
  /\ UNCHANGED <<loaded, linkVars, iface, network_state, enabled, todo, sessions, restarts,
                 kept>>

\* ... and writes it, or fails with the file empty.
Fill ==
  /\ phase = "fill"
  /\ \/ /\ units' = [units EXCEPT ![iface] = content]
        /\ phase' = "reload"
        /\ UNCHANGED <<polls, op, left, content, recorded, selected>>
     \/ Return(FALSE) /\ UNCHANGED units
  /\ UNCHANGED <<loaded, linkVars, iface, network_state, enabled, todo, pastVars>>

\* networkctl reload: networkd reads every unit and configures the links whose
\* unit changed.
ReloadUnits ==
  /\ loaded' = units
  /\ MayLose({i \in Interfaces : loaded[i] # units[i]})

Reload ==
  /\ phase = "reload"
  /\ \/ /\ ReloadUnits
        /\ phase' = "reconfigure"
        /\ UNCHANGED <<polls, op, left, content, recorded, selected>>
     \/ Return(FALSE) /\ UNCHANGED <<loaded, lease>>
  /\ UNCHANGED <<units, up, iface, network_state, enabled, todo, pastVars>>

\* networkctl reconfigure, which also brings the link up.
Reconfigure ==
  /\ phase = "reconfigure"
  /\ \/ /\ MayLose({iface})
        /\ up' = up \cup {iface}
        /\ IF op = "select" THEN Return(TRUE)
           ELSE /\ phase' = "await_ip" /\ polls' = 0
                /\ UNCHANGED <<op, left, content, recorded, selected>>
     \/ Return(FALSE) /\ UNCHANGED linkVars
  /\ UNCHANGED <<units, loaded, iface, network_state, enabled, todo, pastVars>>

AddressFound == phase' = "await_route" /\ polls' = 0

\* configure_dhcp_with waits for an address, ...
AwaitIp ==
  /\ phase = "await_ip"
  /\ IF polls = IP_ATTEMPTS THEN Return(FALSE)
     ELSE /\ IF check_ip_address(iface) THEN AddressFound
                                        ELSE polls' = polls + 1 /\ UNCHANGED phase
          /\ UNCHANGED <<op, left, content, recorded, selected>>
  /\ UNCHANGED <<units, loaded, linkVars, iface, network_state, enabled, todo, pastVars>>

\* Mutant: an attempt without a route is not counted.
UncountedAttempt == polls' = polls

CountAttempt == polls' = polls + 1

\* ... then for a default route, which it can do without.
AwaitRoute ==
  /\ phase = "await_route"
  /\ IF check_default_route(iface) \/ polls = ROUTE_ATTEMPTS THEN Return(TRUE)
     ELSE CountAttempt /\ UNCHANGED <<phase, op, left, content, recorded, selected>>
  /\ UNCHANGED <<units, loaded, linkVars, iface, network_state, enabled, todo, pastVars>>

\* shutdown_interface of the others that were enabled; failures are recorded.
ShutdownOthers ==
  /\ phase = "shutdown"
  /\ \E down \in SUBSET (enabled \ {iface}) :
       /\ up' = up \ down
       /\ lease' = [i \in Interfaces |-> IF i \in down THEN "none" ELSE lease[i]]
  /\ Then("online")
  /\ UNCHANGED <<units, loaded, polls, sessionVars, historyVars>>
----------------------------------------------------------------------------
\* The user leaves: back to the interfaces, on when online, out without cleanup,
\* or by aborting.  A key does not keep the tick of its iteration from running,
\* with the network state the key has left.

Back ==
  /\ left = "on" /\ phase \in Between \ {"choose"}
  /\ phase' = "enable" /\ left' = "choose" /\ polls' = 0
  /\ UNCHANGED <<units, loaded, linkVars, sessionVars, historyVars>>

Leave ==   \* Confirm when online, Quit anywhere
  /\ left = "on" /\ phase \in Between
  /\ IF phase \in Ticking THEN left' = "idle" /\ UNCHANGED phase
                         ELSE phase' = "idle" /\ UNCHANGED left
  /\ polls' = 0
  /\ onlyChecked

Abort ==
  /\ left = "on" /\ phase \in Between
  /\ phase' = "cleanup" /\ todo' = recorded /\ polls' = 0
  /\ network_state' = phase
  /\ UNCHANGED <<units, loaded, linkVars, op, iface, left, content, recorded, enabled,
                 historyVars>>

\* The unit goes, if it can; then networkd is told, if that works.
cleanup_network_config(i) ==
  /\ phase = "cleanup" /\ i \in todo
  /\ todo' = todo \ {i}
  /\ \/ /\ units' = [units EXCEPT ![i] = NoUnit]
        /\ touched' = touched \cup {i}
        /\ \/ /\ loaded' = units'
              /\ MayLose({j \in Interfaces : loaded[j] # units'[j]})
           \/ UNCHANGED <<loaded, lease>>
        /\ UNCHANGED kept
     \/ kept' = kept \cup {i} /\ UNCHANGED <<units, loaded, lease, touched>>
  /\ UNCHANGED <<up, phase, left, network_state, op, iface, content, polls, recorded,
                 enabled, sessions, restarts, late, selected>>

CleanupDone ==
  /\ phase = "cleanup" /\ todo = {}
  /\ IF network_state \in Ticking THEN phase' = network_state /\ left' = "aborted"
                                 ELSE phase' = "aborted" /\ UNCHANGED left
  /\ network_state' = "choose"
  /\ UNCHANGED <<units, loaded, linkVars, polls, op, iface, content, recorded, enabled, todo,
                 historyVars>>
----------------------------------------------------------------------------
\* networkd and the network.

GetAddress(i) ==
  /\ i \in up /\ "DHCP=yes" \in InForce(i) /\ lease[i] = "none"
  /\ lease' = [lease EXCEPT ![i] = "address"]
  /\ UNCHANGED <<units, loaded, up, phase, left, polls, sessionVars, historyVars>>

GetRoute(i) ==
  /\ lease[i] = "address"
  /\ lease' = [lease EXCEPT ![i] = "route"]
  /\ UNCHANGED <<units, loaded, up, phase, left, polls, sessionVars, historyVars>>

LoseLease(i) ==
  /\ lease[i] # "none"
  /\ lease' = [lease EXCEPT ![i] = "none"]
  /\ UNCHANGED <<units, loaded, up, phase, left, polls, sessionVars, historyVars>>

\* The machine stops, even within an operation, and starts again with the files
\* that are left.  (Before the first session that is an initial state again.)
Restart ==
  /\ sessions > 0 /\ restarts < RESTARTS
  /\ restarts' = restarts + 1
  /\ loaded' = units
  /\ up' = Booted
  /\ lease' = [i \in Interfaces |-> "none"]
  /\ phase' = "idle" /\ left' = "on" /\ polls' = 0 /\ op' = "none" /\ content' = NoUnit
  /\ recorded' = {} /\ enabled' = {} /\ todo' = {} /\ network_state' = "choose"
  /\ touched' = {} /\ late' = {} /\ kept' = {} /\ selected' = {}
  /\ UNCHANGED <<units, iface, sessions>>

Program ==
  \/ enable_interface \/ check_link_availability
  \/ AlreadyHasIp \/ ConfigureDhcp
  \/ check_upstream_router \/ check_internet_routability \/ check_dns_resolution
  \/ select_primary_interface
  \/ Truncate \/ Fill \/ Reload \/ Reconfigure \/ AwaitIp \/ AwaitRoute \/ ShutdownOthers
  \/ (\E i \in Interfaces : cleanup_network_config(i)) \/ CleanupDone

User ==
  \/ StartSession \/ Back \/ Leave \/ Abort
  \/ \E i \in Interfaces : ChooseInterface(i)

Network == \E i \in Interfaces : GetAddress(i) \/ GetRoute(i) \/ LoseLease(i)

Next == Program \/ User \/ Network \/ Restart

Spec == Init /\ [][Next]_vars

\* The program runs on; the user and the network may do anything, or nothing.
FairSpec == Spec /\ WF_vars(Program)
----------------------------------------------------------------------------
\* After an abort no unit is left of an interface the session configured, even
\* if the operation failed halfway or another interface was tried afterwards,
\* except where the removal itself failed (cleanup, state_machine.rs:1303).  What
\* the tick after the abort (tui/app.rs:202) still writes is one unit, of the
\* selected interface, and it is on record.
AbortCleans ==
  phase = "aborted" =>
    /\ \A i \in touched \ (kept \cup late) : units[i] = NoUnit
    /\ late \subseteq recorded \cap {iface}

\* When SelectPrimaryInterface succeeded networkd has read what is in the file,
\* which is in force after a restart as well unless the unit of an install is;
\* no older metric is left in it, and unless it mentions the section or a metric
\* elsewhere it has the new one, whatever unit was there and however the session
\* came to this interface.
PrimaryIsConfigured ==
  phase \in {"shutdown", "online"} /\ iface \in selected =>
    /\ units[iface] = loaded[iface]
    /\ "RouteMetric=n" \notin units[iface]
    /\ units[iface] \cap {"#[DHCPv4]", "#RouteMetric=", "other RouteMetric="} = {}
         => "RouteMetric=100" \in units[iface]

\* The stage of a bring-up a phase belongs to: what is inside an operation
\* belongs to the stage it is for, and a key that left ends the bring-up, though
\* a tick may still run.
Stage ==
  IF left # "on" \/ phase \in {"idle", "choose", "cleanup", "aborted"} THEN "away"
  ELSE IF phase \in Between THEN phase
  ELSE IF op = "dhcp" THEN "address" ELSE "primary"

\* For the installer a bring-up is one step per stage, whose checks have budgets
\* of their own: so it is on the systemd executor, in session after session,
\* with all the steps that units, leases and a restart can change in between.
Ticks == INSTANCE BringUp WITH
  Limit    <- [s \in {"enable", "link", "address", "router", "internet", "dns"} |->
                 IF s \in {"enable", "address"} THEN 1 ELSE MAX_RETRIES],
  stage    <- Stage,
  failures <- IF Stage \in {"link", "router", "internet", "dns"} THEN polls ELSE 0

BringsUp == Ticks!Spec

\* The bring-up comes to an end, whatever networkd and the network do.
BringUpEnds == (phase = "link") ~> (phase \notin Ticking \cup Inside)
=============================================================================
