--------------------------- MODULE NetworkdProofs ---------------------------
(***************************************************************************)
(* Networkd for any interfaces, units and limits: its types, what an abort *)
(* leaves behind, and what a selected primary interface is configured by.  *)
(***************************************************************************)
EXTENDS Networkd, FiniteSetTheorems, TLAPS

\* cleanup() has work only while it runs.
TodoInCleanup == phase # "cleanup" => todo = {}

\* An operation that has returned has left the counter at zero, as has an abort.
CounterReset == phase \in {"shutdown", "cleanup"} => polls = 0

\* Only a tick is left to run when a key has left; Back leaves the enabling of
\* the interface.
LeftInTick == left # "on" => phase \in Ticking \cup (Inside \ {"cleanup"})

TypeInv == TypeOK /\ TodoInCleanup /\ CounterReset /\ LeftInTick

USE NetworkdAssumption

\* What networkd may do to leases leaves them leases.
LEMMA MayLoseType ==
  ASSUME NEW is \in SUBSET Interfaces, lease \in [Interfaces -> {"none", "address", "route"}],
         MayLose(is)
  PROVE  lease' \in [Interfaces -> {"none", "address", "route"}]
  BY DEF MayLose

\* What is written is a unit.
LEMMA UnitTypes ==
  /\ generate_dhcp_network_config \in Unit
  /\ NoUnit \in Unit
  /\ \A unit \in Unit : merge_primary_interface_config(unit) \in Unit
<1>1. generate_dhcp_network_config \in Unit /\ NoUnit \in Unit
  BY DEF generate_dhcp_network_config, NoUnit, Unit, Setting
<1>2. ASSUME NEW unit \in Unit
      PROVE  merge_primary_interface_config(unit) \in Unit
  <2> DEFINE merged == merge_primary_interface_config(unit)
  <2>1. CASE unit = NoUnit
    <3>1. merged = generate_dhcp_network_config \cup {"RouteMetric=100"}
      BY <2>1 DEF merge_primary_interface_config, ContainsSection, NoUnit
    <3>2. merged \in Unit
      <4> HIDE DEF merged
      <4> QED
        BY <3>1 DEF generate_dhcp_network_config, Unit, Setting
    <3> QED
      BY <3>2
  <2>2. CASE unit # NoUnit /\ ~ContainsSection(unit)
    <3>1. merged = unit \cup {"[DHCPv4]", "RouteMetric=100"}
      BY <2>2 DEF merge_primary_interface_config
    <3>2. merged \in Unit
      <4> HIDE DEF merged
      <4> QED
        BY <3>1 DEF Unit, Setting
    <3> QED
      BY <3>2
  <2>3. CASE unit # NoUnit /\ ContainsSection(unit) /\ ContainsMetric(unit)
    <3>1. merged = replace_metric(unit)
      BY <2>3 DEF merge_primary_interface_config
    <3>2. merged \in Unit
      <4> HIDE DEF merged
      <4> QED
        BY <3>1 DEF replace_metric, Unit, Setting
    <3> QED
      BY <3>2
  <2>4. CASE unit # NoUnit /\ ContainsSection(unit) /\ ~ContainsMetric(unit)
    <3>1. merged = insert_metric(unit)
      BY <2>4 DEF merge_primary_interface_config
    <3>2. merged \in Unit
      <4> HIDE DEF merged
      <4> QED
        BY <3>1 DEF insert_metric, Unit, Setting
    <3> QED
      BY <3>2
  <2> QED
    BY <2>1, <2>2, <2>3, <2>4
<1> QED
  BY <1>1, <1>2

\* An operation that returns leaves a state between two operations, or the
\* state machine shutting down the other interfaces.
LEMMA ReturnType ==
  ASSUME TypeOK, Return(TRUE) \/ Return(FALSE)
  PROVE  /\ \/ phase' \in {"router", "error"} /\ left = "on"
            \/ phase' = left /\ left # "on"
            \/ phase' = "shutdown" /\ op = "select"
         /\ left' \in {"on", "choose", "idle", "aborted"}
         /\ left' # "on" => phase' = "shutdown"
         /\ op' = "none" /\ content' = NoUnit /\ polls' = 0
         /\ recorded' = recorded \cup {iface} /\ recorded' \subseteq Interfaces
         /\ selected' \subseteq Interfaces
  BY DEF Return, Record, Then, TypeOK

\* Types are kept by the state machine between operations.
LEMMA BetweenTypes ==
  ASSUME TypeInv,
         \/ StartSession \/ (\E i \in Interfaces : ChooseInterface(i)) \/ enable_interface
         \/ check_link_availability \/ AlreadyHasIp \/ ConfigureDhcp
         \/ check_upstream_router \/ check_internet_routability \/ check_dns_resolution
         \/ select_primary_interface \/ Back \/ Leave \/ Abort
  PROVE  TypeInv'
<1> USE DEF TypeInv, TypeOK, TodoInCleanup, CounterReset, LeftInTick, Ticking, Between, Inside,
        linkVars, sessionVars, historyVars, pastVars
<1>0. \A next \in {"address", "router", "internet", "dns", "primary"} :
         onlyChecked /\ phase \in Between /\ (Passes(next) \/ Fails) => TypeInv'
  BY DEF onlyChecked, Passes, Fails, Then
<1>1. CASE StartSession
  BY <1>1 DEF StartSession
<1>2. CASE \E i \in Interfaces : ChooseInterface(i)
  BY <1>2 DEF ChooseInterface
<1>3. CASE enable_interface
  BY <1>3 DEF enable_interface, Then
<1>4. CASE check_link_availability
  BY <1>0, <1>4 DEF check_link_availability
<1>5. CASE AlreadyHasIp
  BY <1>0, <1>5 DEF AlreadyHasIp
<1>6. CASE ConfigureDhcp
  BY <1>6, UnitTypes DEF ConfigureDhcp
<1>7. CASE check_upstream_router
  BY <1>0, <1>7 DEF check_upstream_router
<1>8. CASE check_internet_routability
  BY <1>0, <1>8 DEF check_internet_routability
<1>9. CASE check_dns_resolution
  BY <1>0, <1>9 DEF check_dns_resolution
<1>10. CASE select_primary_interface
  BY <1>10, UnitTypes DEF select_primary_interface
<1>11. CASE Back \/ Leave
  BY <1>11 DEF Back, Leave, onlyChecked
<1>12. CASE Abort
  BY <1>12 DEF Abort
<1> QED
  BY <1>1, <1>2, <1>3, <1>4, <1>5, <1>6, <1>7, <1>8, <1>9, <1>10, <1>11, <1>12

\* ... and inside ConfigureDhcp and SelectPrimaryInterface.
LEMMA InsideTypes ==
  ASSUME TypeInv,
         Truncate \/ Fill \/ Reload \/ Reconfigure \/ AwaitIp \/ AwaitRoute \/ ShutdownOthers
  PROVE  TypeInv'
<1> USE DEF TypeInv, TypeOK, TodoInCleanup, CounterReset, LeftInTick, Ticking, Between, Inside,
        linkVars, sessionVars, historyVars, pastVars
<1> DEFINE Returned ==
             /\ phase' \in {"shutdown", "router", "error", "choose", "idle", "aborted"}
             /\ left' \in {"on", "choose", "idle", "aborted"}
             /\ left' # "on" => phase' = "shutdown"
             /\ op' = "none" /\ content' \in Unit /\ polls' = 0
             /\ recorded \subseteq recorded' /\ recorded' \subseteq Interfaces
             /\ selected' \subseteq Interfaces
<1>0. Return(TRUE) \/ Return(FALSE) => Returned
  BY ReturnType, UnitTypes
<1>00. ASSUME Returned, phase # "cleanup",
              units' \in [Interfaces -> Unit],
              loaded' \in [Interfaces -> Unit],
              up' \subseteq Interfaces,
              lease' \in [Interfaces -> {"none", "address", "route"}],
              touched' \subseteq Interfaces, late' \subseteq Interfaces,
              UNCHANGED <<iface, network_state, enabled, todo, sessions, restarts, kept>>
       PROVE  TypeInv'
  BY <1>00
<1>1. CASE Truncate
  <2>0. touched' \subseteq Interfaces /\ late' \subseteq Interfaces
    <3>1. touched' \subseteq touched \cup {iface} /\ late' \subseteq late \cup {iface}
      BY <1>1 DEF Truncate
    <3> QED
      BY <3>1
  <2>1. CASE /\ units' = [units EXCEPT ![iface] = NoUnit]
             /\ phase' = "fill"
             /\ UNCHANGED <<polls, op, left, content, recorded, selected>>
    <3>1. units' \in [Interfaces -> Unit]
      BY <2>1, UnitTypes
    <3> QED
      BY <1>1, <2>0, <2>1, <3>1 DEF Truncate
  <2>2. CASE Return(FALSE) /\ UNCHANGED <<units, touched, late>>
    BY <1>1, <1>0, <1>00, <2>2 DEF Truncate
  <2> QED
    BY <1>1, <2>1, <2>2 DEF Truncate
<1>2. CASE Fill
  <2>1. CASE phase' = "reload"
    BY <1>2, <1>0, <2>1 DEF Fill
  <2>2. CASE Return(FALSE)
    BY <1>2, <1>0, <1>00, <2>2 DEF Fill
  <2> QED
    BY <1>2, <2>1, <2>2 DEF Fill
<1>3. CASE Reload
  <2>1. CASE Return(FALSE) /\ UNCHANGED <<loaded, lease>>
    BY <1>3, <1>0, <1>00, <2>1 DEF Reload
  <2>2. CASE ReloadUnits /\ phase' = "reconfigure"
             /\ UNCHANGED <<polls, op, left, content, recorded, selected>>
    <3>1. lease' \in [Interfaces -> {"none", "address", "route"}]
      BY <2>2, MayLoseType DEF ReloadUnits
    <3> QED
      BY <1>3, <2>2, <3>1 DEF Reload, ReloadUnits
  <2> QED
    BY <1>3, <2>1, <2>2 DEF Reload
<1>4. CASE Reconfigure
  <2>1. lease' \in [Interfaces -> {"none", "address", "route"}] /\ up' \subseteq Interfaces
    BY <1>4, MayLoseType DEF Reconfigure
  <2>2. CASE Return(TRUE) \/ Return(FALSE)
    BY <1>4, <1>0, <1>00, <2>1, <2>2 DEF Reconfigure
  <2>3. CASE /\ phase' = "await_ip" /\ polls' = 0
             /\ UNCHANGED <<op, left, content, recorded, selected>>
    BY <1>4, <2>1, <2>3 DEF Reconfigure
  <2> QED
    BY <1>4, <2>2, <2>3 DEF Reconfigure
<1>5. CASE AwaitIp
  <2>1. CASE Return(FALSE)
    BY <1>5, <1>0, <1>00, <2>1 DEF AwaitIp
  <2>2. CASE polls # IP_ATTEMPTS
    BY <1>5, <2>2 DEF AwaitIp, AddressFound
  <2> QED
    BY <1>5, <2>1, <2>2 DEF AwaitIp
<1>6. CASE AwaitRoute
  <2>1. CASE Return(TRUE)
    BY <1>6, <1>0, <1>00, <2>1 DEF AwaitRoute
  <2>2. CASE /\ polls # ROUTE_ATTEMPTS /\ CountAttempt
             /\ UNCHANGED <<phase, op, left, content, recorded, selected>>
    BY <1>6, <2>2 DEF AwaitRoute, CountAttempt
  <2> QED
    BY <1>6, <2>1, <2>2 DEF AwaitRoute
<1>7. CASE ShutdownOthers
  <2>1. PICK down \in SUBSET (enabled \ {iface}) :
          /\ up' = up \ down
          /\ lease' = [i \in Interfaces |-> IF i \in down THEN "none" ELSE lease[i]]
    BY <1>7 DEF ShutdownOthers
  <2>2. lease' \in [Interfaces -> {"none", "address", "route"}] /\ up' \subseteq Interfaces
    BY <2>1
  <2> QED
    BY <1>7, <2>2 DEF ShutdownOthers, Then
<1> QED
  BY <1>1, <1>2, <1>3, <1>4, <1>5, <1>6, <1>7

\* ... and by the cleanup, the network and a restart.
LEMMA OtherTypes ==
  ASSUME TypeInv,
         (\E i \in Interfaces : cleanup_network_config(i)) \/ CleanupDone \/ Network \/ Restart
  PROVE  TypeInv'
<1> USE DEF TypeInv, TypeOK, TodoInCleanup, CounterReset, LeftInTick, Ticking, Between, Inside,
        linkVars, sessionVars, historyVars, pastVars
<1>1. ASSUME NEW i \in Interfaces, cleanup_network_config(i)
      PROVE  TypeInv'
  <2>1. units' \in [Interfaces -> Unit]
    BY <1>1, UnitTypes DEF cleanup_network_config
  <2>2. loaded' \in [Interfaces -> Unit]
    BY <1>1, <2>1 DEF cleanup_network_config
  <2>3. lease' \in [Interfaces -> {"none", "address", "route"}]
    BY <1>1, MayLoseType DEF cleanup_network_config
  <2> QED
    BY <1>1, <2>1, <2>2, <2>3 DEF cleanup_network_config
<1>2. CASE CleanupDone
  BY <1>2 DEF CleanupDone
<1>3. CASE Network
  BY <1>3 DEF Network, GetAddress, GetRoute, LoseLease
<1>4. CASE Restart
  BY <1>4, UnitTypes DEF Restart, Booted
<1> QED
  BY <1>1, <1>2, <1>3, <1>4

\* Nothing changes in a step in which nothing changes.
LEMMA StutterTypes ==
  ASSUME TypeInv, UNCHANGED vars
  PROVE  TypeInv'
  BY DEF TypeInv, TypeOK, TodoInCleanup, CounterReset, LeftInTick, Ticking, Between, Inside,
         vars, linkVars, sessionVars, historyVars, pastVars

\* For any interfaces, units and limits the state is well typed: a wait never
\* outlasts its own limit, whichever of the two waits and of the checks went
\* before it, and cleanup() never goes beyond what the manifest recorded.
THEOREM NetworkdTypes == Spec => []TypeOK
<1>1. Init => TypeInv
  BY UnitTypes DEF Init, Booted, TypeInv, TypeOK, TodoInCleanup, CounterReset, LeftInTick,
     Ticking, Between, Inside
<1>2. TypeInv /\ [Next]_vars => TypeInv'
  BY BetweenTypes, InsideTypes, OtherTypes, StutterTypes DEF Next, Program, User
<1>3. TypeInv => TypeOK
  BY DEF TypeInv
<1> QED
  BY <1>1, <1>2, <1>3, PTL DEF Spec

\* The same invariant with what cleanup() has left to do, for the proofs below.
LEMMA TypesAlways == Spec => []TypeInv
<1>1. Init => TypeInv
  BY UnitTypes DEF Init, Booted, TypeInv, TypeOK, TodoInCleanup, CounterReset, LeftInTick,
     Ticking, Between, Inside
<1>2. TypeInv /\ [Next]_vars => TypeInv'
  BY BetweenTypes, InsideTypes, OtherTypes, StutterTypes DEF Next, Program, User
<1> QED
  BY <1>1, <1>2, PTL DEF Spec
----------------------------------------------------------------------------
\* Inside an operation that writes.
Writing == Inside \ {"shutdown", "cleanup"}

\* What was opened for writing is on record, except that of the operation under
\* way; while the cleanup runs it is gone, kept, or still to do; and the tick
\* after that writes nothing but the unit of its own interface.
Recorded ==
  /\ phase \in Between \cup {"shutdown", "cleanup"} => touched \cup late \subseteq recorded
  /\ phase \in Writing => touched \cup late \subseteq recorded \cup {iface}
  /\ phase = "cleanup" => \A i \in touched \ kept : i \in todo \/ units[i] = NoUnit
  /\ phase \in Between \cup Inside /\ left # "aborted" => late = {}
  /\ left = "aborted" =>
       /\ \A i \in touched \ (kept \cup late) : units[i] = NoUnit
       /\ late \subseteq {iface}
       /\ phase = "fill" => late = {iface}
  /\ AbortCleans

\* One step per kind of action: most leave the files and the record alone.
LEMMA RecordedKept ==
  ASSUME TypeInv, Recorded, [Next]_vars
  PROVE  Recorded'
<1> USE DEF Recorded, AbortCleans, Writing, Ticking, Between, Inside, linkVars, sessionVars,
        historyVars, pastVars, TypeInv, LeftInTick
<1> DEFINE sameFiles == UNCHANGED <<units, touched, late, kept, todo, iface>>
<1>0. ASSUME sameFiles, recorded' = recorded,
             \/ phase' = phase /\ left' = left
             \/ /\ phase \in Writing \cup Ticking /\ phase' \in Writing \ {"fill"}
                /\ left' = left
      PROVE  Recorded'
  BY <1>0
<1>1. ASSUME sameFiles, recorded' = recorded, phase \in Ticking \cup {"shutdown"},
             NEW next \in Between, Then(next)
      PROVE  Recorded'
  BY <1>1 DEF Then, TypeOK
<1>2. ASSUME sameFiles, phase \in Writing, Return(TRUE) \/ Return(FALSE)
      PROVE  Recorded'
  BY <1>2 DEF Return, Record, Then, TypeOK
<1>3. CASE StartSession \/ Restart
  BY <1>3 DEF StartSession, Restart
<1>4. CASE \E i \in Interfaces : ChooseInterface(i)
  BY <1>4 DEF ChooseInterface
<1>5. CASE enable_interface
  BY <1>1, <1>5 DEF enable_interface
<1>6. CASE check_link_availability \/ AlreadyHasIp \/ check_upstream_router
           \/ check_internet_routability \/ check_dns_resolution
  <2>1. PICK next \in Between : Then(next)
    BY <1>6 DEF check_link_availability, AlreadyHasIp, check_upstream_router,
       check_internet_routability, check_dns_resolution, Passes, Fails
  <2>2. phase \in Ticking /\ onlyChecked
    BY <1>6 DEF check_link_availability, AlreadyHasIp, check_upstream_router,
       check_internet_routability, check_dns_resolution
  <2> QED
    BY <1>1, <2>1, <2>2 DEF onlyChecked
<1>7. CASE ConfigureDhcp \/ select_primary_interface
  BY <1>0, <1>7 DEF ConfigureDhcp, select_primary_interface
<1>8. CASE Back \/ Leave
  BY <1>8 DEF Back, Leave, onlyChecked
<1>9. CASE Abort
  BY <1>9 DEF Abort
<1>10. CASE Truncate
  <2>0. UNCHANGED <<iface, todo, kept>> /\ phase = "truncate"
    BY <1>10 DEF Truncate
  <2>1. CASE Return(FALSE) /\ UNCHANGED <<units, touched, late>>
    BY <1>2, <2>0, <2>1
  <2> DEFINE Opened == /\ units' = [units EXCEPT ![iface] = NoUnit]
                       /\ phase' = "fill" /\ UNCHANGED <<left, recorded>>
  <2>2. CASE /\ Opened
             /\ left = "aborted" /\ late' = late \cup {iface} /\ UNCHANGED touched
    BY <2>0, <2>2 DEF TypeOK
  <2>3. CASE /\ Opened
             /\ left # "aborted" /\ touched' = touched \cup {iface} /\ UNCHANGED late
    BY <2>0, <2>3 DEF TypeOK
  <2> QED
    BY <1>10, <2>1, <2>2, <2>3 DEF Truncate
<1>11. CASE Fill
  BY <1>2, <1>11 DEF Fill, TypeOK
<1>12. CASE Reload
  BY <1>0, <1>2, <1>12 DEF Reload
<1>13. CASE Reconfigure
  BY <1>0, <1>2, <1>13 DEF Reconfigure
<1>14. CASE AwaitIp \/ AwaitRoute
  BY <1>0, <1>2, <1>14 DEF AwaitIp, AwaitRoute, AddressFound, CountAttempt
<1>15. CASE ShutdownOthers
  BY <1>1, <1>15 DEF ShutdownOthers
<1>16. ASSUME NEW i \in Interfaces, cleanup_network_config(i)
       PROVE  Recorded'
  BY <1>16 DEF cleanup_network_config, TypeOK
<1>17. CASE CleanupDone
  BY <1>17 DEF CleanupDone, TypeOK
<1>18. CASE Network
  BY <1>0, <1>18 DEF Network, GetAddress, GetRoute, LoseLease
<1>19. CASE UNCHANGED vars
  BY <1>0, <1>19 DEF vars
<1> QED
  BY <1>3, <1>4, <1>5, <1>6, <1>7, <1>8, <1>9, <1>10, <1>11, <1>12, <1>13, <1>14, <1>15,
     <1>16, <1>17, <1>18, <1>19 DEF Next, Program, User

\* For any interfaces, however the operations of a session fail and whatever it
\* turned to afterwards, its abort leaves no unit of it behind unless the
\* removal of that unit failed, or the tick after the abort wrote it again.
THEOREM AbortsClean == Spec => []AbortCleans
<1>1. Init => Recorded
  BY DEF Init, Recorded, AbortCleans, Between, Writing, Inside
<1>2. TypeInv /\ Recorded /\ [Next]_vars => Recorded'
  BY RecordedKept
<1>3. Recorded => AbortCleans
  BY DEF Recorded
<1> QED
  BY <1>1, <1>2, <1>3, TypesAlways, PTL DEF Spec
----------------------------------------------------------------------------
\* What PrimaryIsConfigured says of a unit.
Misplaced(unit) == unit \cap {"#[DHCPv4]", "#RouteMetric=", "other RouteMetric="} # {}

IsPrimary(unit) ==
  "RouteMetric=n" \notin unit /\ (~Misplaced(unit) => "RouteMetric=100" \in unit)

\* How far a SelectPrimaryInterface has come: what it writes, has written, and
\* has made networkd read.
Selecting ==
  /\ op = "select" /\ phase \in {"truncate", "fill"} => IsPrimary(content)
  /\ op = "select" /\ phase = "reload" => IsPrimary(units[iface])
  /\ op = "select" /\ phase = "reconfigure" =>
       IsPrimary(units[iface]) /\ units[iface] = loaded[iface]
  /\ phase \in {"await_ip", "await_route"} => op # "select"
  /\ PrimaryIsConfigured

\* What is merged into any unit makes it one of a primary interface.
LEMMA MergeIsPrimary ==
  ASSUME NEW unit \in Unit
  PROVE  IsPrimary(merge_primary_interface_config(unit))
<1> DEFINE merged == merge_primary_interface_config(unit)
<1>1. CASE unit = NoUnit
  <2>1. merged = generate_dhcp_network_config \cup {"RouteMetric=100"}
    BY <1>1 DEF merge_primary_interface_config, ContainsSection, NoUnit
  <2> HIDE DEF merged
  <2>2. IsPrimary(merged)
    BY <2>1 DEF IsPrimary, generate_dhcp_network_config
  <2> QED
    BY <2>2 DEF merged
<1>2. CASE unit # NoUnit /\ ~ContainsSection(unit)
  <2>1. merged = unit \cup {"[DHCPv4]", "RouteMetric=100"}
    BY <1>2 DEF merge_primary_interface_config
  <2>2. "RouteMetric=n" \notin unit
    BY <1>2 DEF ContainsSection, Unit
  <2> HIDE DEF merged
  <2>3. IsPrimary(merged)
    BY <2>1, <2>2 DEF IsPrimary
  <2> QED
    BY <2>3 DEF merged
<1>3. CASE unit # NoUnit /\ ContainsSection(unit) /\ ContainsMetric(unit)
  <2>1. merged = replace_metric(unit)
    BY <1>3 DEF merge_primary_interface_config
  <2> HIDE DEF merged
  <2>2. IsPrimary(merged)
    BY <1>3, <2>1 DEF IsPrimary, Misplaced, replace_metric, ContainsMetric
  <2> QED
    BY <2>2 DEF merged
<1>4. CASE unit # NoUnit /\ ContainsSection(unit) /\ ~ContainsMetric(unit)
  <2>1. merged = insert_metric(unit)
    BY <1>4 DEF merge_primary_interface_config
  <2> HIDE DEF merged
  <2>2. IsPrimary(merged)
    BY <1>4, <2>1 DEF IsPrimary, Misplaced, insert_metric, ContainsSection, ContainsMetric
  <2> QED
    BY <2>2 DEF merged
<1> QED
  BY <1>1, <1>2, <1>3, <1>4

\* One step per action that writes, reads or selects.
LEMMA SelectingKept ==
  ASSUME TypeInv, Selecting, [Next]_vars
  PROVE  Selecting'
<1> USE DEF Selecting, PrimaryIsConfigured, IsPrimary, Misplaced, Between, Inside, linkVars,
        linkVars, sessionVars, historyVars, pastVars
<1>0. ASSUME phase' \notin {"truncate", "fill", "reload", "reconfigure", "await_ip",
                            "await_route", "shutdown", "online"}
      PROVE  Selecting'
  BY <1>0
<1>1. ASSUME Return(TRUE) \/ Return(FALSE), op # "select" \/ Return(FALSE)
      PROVE  Selecting'
  BY <1>1 DEF Return, Then, TypeInv, TypeOK
<1>2. ASSUME UNCHANGED <<units, loaded, phase, op, iface, content, selected>>
      PROVE  Selecting'
  BY <1>2
<1>3. CASE ConfigureDhcp \/ select_primary_interface
  <2>1. CASE ConfigureDhcp
    BY <2>1 DEF ConfigureDhcp
  <2>2. CASE select_primary_interface
    <3>1. PICK existing \in {units[iface], NoUnit} :
            content' = merge_primary_interface_config(existing)
      BY <2>2 DEF select_primary_interface
    <3>2. existing \in Unit
      BY <3>1, UnitTypes DEF TypeInv, TypeOK
    <3>3. IsPrimary(content')
      BY <3>1, <3>2, MergeIsPrimary
    <3> HIDE DEF IsPrimary, Misplaced
    <3> QED
      BY <2>2, <3>3 DEF select_primary_interface
  <2> QED
    BY <1>3, <2>1, <2>2
<1>4. CASE Truncate
  BY <1>1, <1>4 DEF Truncate
<1>5. CASE Fill
  BY <1>1, <1>5 DEF Fill, TypeInv, TypeOK
<1>6. CASE Reload
  BY <1>1, <1>6 DEF Reload, ReloadUnits
<1>7. CASE Reconfigure
  BY <1>1, <1>7 DEF Reconfigure, Return
<1>8. CASE AwaitIp \/ AwaitRoute
  BY <1>1, <1>8 DEF AwaitIp, AwaitRoute, AddressFound, CountAttempt
<1>9. CASE ShutdownOthers
  BY <1>9 DEF ShutdownOthers, Then, TypeInv, TypeOK
<1>10. CASE enable_interface \/ check_link_availability \/ AlreadyHasIp
            \/ check_upstream_router \/ check_internet_routability
            \/ check_dns_resolution \/ Back \/ Leave
  BY <1>0, <1>10 DEF enable_interface, check_link_availability, AlreadyHasIp,
     check_upstream_router, check_internet_routability, check_dns_resolution, Back, Leave,
     Passes, Fails, Then, onlyChecked, Ticking, TypeInv, TypeOK
<1>11. CASE StartSession \/ (\E i \in Interfaces : ChooseInterface(i)) \/ Abort
            \/ (\E i \in Interfaces : cleanup_network_config(i)) \/ CleanupDone \/ Restart
  BY <1>0, <1>11 DEF StartSession, ChooseInterface, Abort, cleanup_network_config,
     CleanupDone, Restart, Ticking
<1>12. CASE Network \/ UNCHANGED vars
  BY <1>2, <1>12 DEF Network, GetAddress, GetRoute, LoseLease, vars
<1> QED
  BY <1>3, <1>4, <1>5, <1>6, <1>7, <1>8, <1>9, <1>10, <1>11, <1>12 DEF Next, Program, User

\* For any interfaces and any unit there was before: of an interface that was
\* selected as primary networkd has read what is in the file, no older metric is
\* left, and the new one is there unless the unit mentions the section or a metric
\* where it sets nothing for DHCP.
THEOREM PrimaryConfigured == Spec => []PrimaryIsConfigured
<1>1. Init => Selecting
  BY DEF Init, Selecting, PrimaryIsConfigured
<1>2. TypeInv /\ Selecting /\ [Next]_vars => Selecting'
  BY SelectingKept
<1>3. Selecting => PrimaryIsConfigured
  BY DEF Selecting
<1> QED
  BY <1>1, <1>2, <1>3, TypesAlways, PTL DEF Spec
----------------------------------------------------------------------------
\* An operation under way is known by its kind, and the first stage starts with
\* no failures.
StageKnown ==
  /\ phase \in Writing => op \in {"dhcp", "select"}
  /\ phase \in {"await_ip", "await_route"} => op = "dhcp"
  /\ phase = "shutdown" => op = "none"
  /\ phase = "enable" => polls = 0

\* An operation that returns ends its stage, except that the other interfaces
\* are still to be shut down once a primary one is selected.
LEMMA ReturnTicks ==
  ASSUME TypeInv, StageKnown, phase \in Writing, Return(TRUE) \/ Return(FALSE)
  PROVE  StageKnown' /\ [Ticks!Next]_(Ticks!vars)
<1> USE DEF StageKnown, Stage, Writing, Between, Inside, TypeInv, TypeOK
<1>1. CASE op = "select"
  BY <1>1 DEF Return, Ticks!vars, Ticks!Next, Ticks!Leave
<1>2. CASE op = "dhcp" /\ left # "on"
  BY <1>2 DEF Return, Then, Ticks!vars
<1>3. CASE op = "dhcp" /\ left = "on" /\ Return(TRUE)
  BY <1>3 DEF Return, Then, Ticks!Next, Ticks!Pass, Ticks!After
<1>4. CASE op = "dhcp" /\ left = "on" /\ Return(FALSE)
  BY <1>4 DEF Return, Then, Ticks!Next, Ticks!GiveUp
<1> QED
  BY <1>1, <1>2, <1>3, <1>4

\* Inside an operation no stage ends.
LEMMA InsideTicks ==
  ASSUME TypeInv, StageKnown,
         Truncate \/ Fill \/ Reload \/ Reconfigure \/ AwaitIp \/ AwaitRoute
  PROVE  StageKnown' /\ [Ticks!Next]_(Ticks!vars)
<1>1. phase \in Writing
  BY DEF Writing, Inside, Truncate, Fill, Reload, Reconfigure, AwaitIp, AwaitRoute
<1>2. CASE Return(TRUE) \/ Return(FALSE)
  BY <1>1, <1>2, ReturnTicks
<1>3. CASE /\ phase' \in Writing /\ UNCHANGED <<op, left>>
           /\ phase' \in {"await_ip", "await_route"} => op = "dhcp"
  BY <1>1, <1>3 DEF StageKnown, Stage, Writing, Between, Inside, Ticks!vars
<1> QED
  BY <1>1, <1>2, <1>3 DEF StageKnown, Writing, Inside, Truncate, Fill, Reload, Reconfigure,
     AwaitIp, AwaitRoute, AddressFound, CountAttempt

\* A tick of one step ends its stage, or has it tried once more.
LEMMA CheckTicks ==
  ASSUME TypeInv, StageKnown,
         \/ enable_interface \/ check_link_availability \/ AlreadyHasIp
         \/ check_upstream_router \/ check_internet_routability \/ check_dns_resolution
         \/ ShutdownOthers
  PROVE  StageKnown' /\ [Ticks!Next]_(Ticks!vars)
<1> USE DEF StageKnown, Stage, Writing, Between, Inside, Ticking, TypeInv, TypeOK, Then,
        sessionVars, onlyChecked
<1> DEFINE Passed(from, next) == phase = from /\ Then(next) /\ polls' = 0
           Failed(from) == phase = from /\ Fails
<1>1. ASSUME NEW from \in DOMAIN Ticks!After, Passed(from, Ticks!After[from])
      PROVE  StageKnown' /\ [Ticks!Next]_(Ticks!vars)
  BY <1>1 DEF Ticks!Next, Ticks!Pass, Ticks!After, Ticks!vars
<1>2. ASSUME NEW from \in {"link", "router", "internet", "dns"}, Failed(from)
      PROVE  StageKnown' /\ [Ticks!Next]_(Ticks!vars)
  <2>1. CASE left # "on"
    BY <1>2, <2>1 DEF Fails, Ticks!vars
  <2>2. CASE left = "on" /\ polls + 1 >= MAX_RETRIES
    BY <1>2, <2>2 DEF Fails, Ticks!Next, Ticks!GiveUp
  <2>3. CASE left = "on" /\ ~(polls + 1 >= MAX_RETRIES)
    BY <1>2, <2>3 DEF Fails, Ticks!Next, Ticks!Fail
  <2> QED
    BY <2>1, <2>2, <2>3
<1>3. CASE enable_interface
  <2>1. phase = "enable" /\ polls' = 0 /\ (Then("link") \/ Then("error"))
    BY <1>3 DEF enable_interface
  <2>2. CASE Then("link")
    BY <2>1, <2>2, <1>1 DEF Ticks!After
  <2>3. CASE Then("error")
    BY <2>1, <2>3 DEF Ticks!Next, Ticks!GiveUp, Ticks!vars
  <2> QED
    BY <2>1, <2>2, <2>3
<1>4. CASE check_link_availability
  BY <1>4, <1>1, <1>2 DEF check_link_availability, Passes, Ticks!After
<1>5. CASE AlreadyHasIp
  BY <1>5, <1>1 DEF AlreadyHasIp, Passes, Ticks!After
<1>6. CASE check_upstream_router
  BY <1>6, <1>1, <1>2 DEF check_upstream_router, Passes, Ticks!After
<1>7. CASE check_internet_routability
  BY <1>7, <1>1, <1>2 DEF check_internet_routability, Passes, Ticks!After
<1>8. CASE check_dns_resolution
  BY <1>8, <1>1, <1>2 DEF check_dns_resolution, Passes, Ticks!After
<1>9. CASE ShutdownOthers
  <2>1. phase = "shutdown" /\ Then("online") /\ polls' = polls
    BY <1>9 DEF ShutdownOthers
  <2>2. CASE left = "on"
    BY <2>1, <2>2 DEF Ticks!Next, Ticks!Pass, Ticks!After
  <2>3. CASE left # "on"
    BY <2>1, <2>3 DEF Ticks!vars
  <2> QED
    BY <2>1, <2>2, <2>3
<1> QED
  BY <1>3, <1>4, <1>5, <1>6, <1>7, <1>8, <1>9

\* The user begins and leaves, the network changes nothing, and what an abort
\* still does belongs to no bring-up.
LEMMA OtherTicks ==
  ASSUME TypeInv, StageKnown,
         \/ ConfigureDhcp \/ select_primary_interface \/ User \/ Network \/ Restart
         \/ (\E i \in Interfaces : cleanup_network_config(i)) \/ CleanupDone
         \/ UNCHANGED vars
  PROVE  StageKnown' /\ [Ticks!Next]_(Ticks!vars)
<1> USE DEF StageKnown, Stage, Writing, Between, Inside, Ticking, TypeInv, TypeOK, LeftInTick
<1>1. CASE ConfigureDhcp \/ select_primary_interface
  BY <1>1 DEF ConfigureDhcp, select_primary_interface, Ticks!vars
<1>2. CASE \E i \in Interfaces : ChooseInterface(i)
  BY <1>2 DEF ChooseInterface, Ticks!Next, Ticks!Begin
<1>3. CASE StartSession \/ Back \/ Leave \/ Abort \/ Restart \/ CleanupDone
  <2>1. CASE CleanupDone
    BY <2>1 DEF CleanupDone, CounterReset, sessionVars, Ticks!vars
  <2>2. CASE Back \/ Leave \/ Abort
    BY <2>2 DEF Back, Leave, Abort, onlyChecked, sessionVars, Ticks!Next, Ticks!Leave
  <2>3. CASE StartSession \/ Restart
    BY <2>3 DEF StartSession, Restart, Ticks!Next, Ticks!Leave
  <2> QED
    BY <1>3, <2>1, <2>2, <2>3
<1>4. CASE Network \/ UNCHANGED vars \/ \E i \in Interfaces : cleanup_network_config(i)
  BY <1>4 DEF Network, GetAddress, GetRoute, LoseLease, cleanup_network_config, vars,
     sessionVars, Ticks!vars
<1> QED
  BY <1>1, <1>2, <1>3, <1>4 DEF User

\* For any interfaces, units and limits, and whatever networkd, the user and
\* restarts change inside a tick, each bring-up on the systemd executor is one
\* step per stage.
THEOREM SystemdBringsUp == Spec => BringsUp
<1>1. Init => StageKnown /\ Ticks!Init
  BY DEF Init, StageKnown, Stage, Writing, Inside, Ticks!Init
<1>2. TypeInv /\ StageKnown /\ [Next]_vars => StageKnown' /\ [Ticks!Next]_(Ticks!vars)
  BY InsideTicks, CheckTicks, OtherTicks DEF Next, Program
<1> QED
  BY <1>1, <1>2, TypesAlways, PTL DEF Spec, BringsUp, Ticks!Spec
----------------------------------------------------------------------------
\* The steps the program may still take before it waits for the user: outside
\* the operations that write, and inside each of the two.
AfterDhcp == 3 * MAX_RETRIES + 9

AfterLink == AfterDhcp + ROUTE_ATTEMPTS + IP_ATTEMPTS + 7

SelectLeft == [truncate |-> 5, fill |-> 4, reload |-> 3, reconfigure |-> 2]

DhcpLeft ==
  [truncate    |-> AfterDhcp + ROUTE_ATTEMPTS + IP_ATTEMPTS + 6,
   fill        |-> AfterDhcp + ROUTE_ATTEMPTS + IP_ATTEMPTS + 5,
   reload      |-> AfterDhcp + ROUTE_ATTEMPTS + IP_ATTEMPTS + 4,
   reconfigure |-> AfterDhcp + ROUTE_ATTEMPTS + IP_ATTEMPTS + 3,
   await_ip    |-> AfterDhcp + ROUTE_ATTEMPTS + IP_ATTEMPTS + 2 - polls,
   await_route |-> AfterDhcp + ROUTE_ATTEMPTS + 1 - polls]

StageLeft ==
  [idle |-> 0, choose |-> 0, aborted |-> 0, online |-> 0, error |-> 0,
   shutdown |-> 1,
   primary  |-> 6,
   dns      |-> MAX_RETRIES + 7 - polls,
   internet |-> 2 * MAX_RETRIES + 8 - polls,
   router   |-> AfterDhcp - polls,
   address  |-> AfterLink,
   link     |-> AfterLink + MAX_RETRIES + 1 - polls,
   enable   |-> AfterLink + MAX_RETRIES + 2,
   cleanup  |-> AfterLink + MAX_RETRIES + 3 + Cardinality(todo)]

StepsLeft ==
  IF phase \notin Writing THEN StageLeft[phase]
  ELSE IF op = "select" THEN SelectLeft[phase] ELSE DhcpLeft[phase]

Longest == AfterLink + MAX_RETRIES + 3 + Cardinality(Interfaces)

LEMMA TodoIsFinite ==
  ASSUME TypeOK
  PROVE  /\ Cardinality(todo) \in Nat /\ Cardinality(Interfaces) \in Nat
         /\ Cardinality(todo) <= Cardinality(Interfaces)
         /\ \A i \in todo : Cardinality(todo \ {i}) = Cardinality(todo) - 1
<1>1. todo \subseteq Interfaces
  BY DEF TypeOK
<1>2. IsFiniteSet(todo) /\ Cardinality(todo) <= Cardinality(Interfaces)
  BY <1>1, FS_Subset
<1> QED
  BY <1>2, FS_CardinalityType, FS_RemoveElement

\* With nothing left the bring-up is over, as BringUpEnds has it.
Ended == phase \notin Ticking \cup Inside

LEMMA StepsAreFinite ==
  TypeInv /\ StageKnown => StepsLeft \in 0 .. Longest /\ (StepsLeft = 0 => Ended)
<1> SUFFICES ASSUME TypeInv, StageKnown
             PROVE  StepsLeft \in 0 .. Longest /\ (StepsLeft = 0 => Ended)
  OBVIOUS
<1> USE TodoIsFinite DEF TypeInv, TypeOK, StageKnown, StepsLeft, Longest, AfterLink, AfterDhcp
<1>1. CASE phase \in Writing
  BY <1>1 DEF Writing, Inside, SelectLeft, DhcpLeft
<1>2. CASE phase \notin Writing
  BY <1>2 DEF Writing, Between, Inside, StageLeft, Ended, Ticking
<1> QED
  BY <1>1, <1>2

\* A step that goes on takes one of the steps that were left, and so does one
\* that ends a tick the user has left.
LEMMA ReturnCounts ==
  ASSUME TypeInv, StageKnown, phase \in Writing, Return(TRUE) \/ Return(FALSE)
  PROVE  StepsLeft' < StepsLeft
<1> USE DEF TypeInv, TypeOK, StageKnown, StepsLeft, AfterLink, AfterDhcp, Writing, Inside
<1>1. CASE op = "select"
  <2>1. StepsLeft' = 1
    <3>1. phase' = "shutdown"
      BY <1>1 DEF Return
    <3> QED
      BY <3>1 DEF StageLeft
  <2>2. phase \in {"truncate", "fill", "reload", "reconfigure"}
    BY <1>1
  <2>3. StepsLeft = SelectLeft[phase]
    BY <1>1
  <2>4. StepsLeft \in 2 .. 5
    BY <2>2, <2>3 DEF SelectLeft
  <2> QED
    BY <2>1, <2>4
<1>2. CASE op = "dhcp"
  <2>1. StepsLeft' \in {0, AfterDhcp}
    <3>1. phase' \in {"router", "error", "choose", "idle", "aborted"} /\ polls' = 0
      BY <1>2 DEF Return, Then
    <3> QED
      BY <3>1 DEF StageLeft
  <2>2. StepsLeft \in Int /\ StepsLeft > AfterDhcp
    <3>1. phase \in {"truncate", "fill", "reload", "reconfigure", "await_ip", "await_route"}
      OBVIOUS
    <3>2. StepsLeft = DhcpLeft[phase]
      BY <1>2
    <3>3. /\ phase = "await_ip" => polls <= IP_ATTEMPTS
          /\ phase = "await_route" => polls <= ROUTE_ATTEMPTS
          /\ polls \in Nat
      OBVIOUS
    <3> QED
      BY <3>1, <3>2, <3>3 DEF DhcpLeft
  <2> QED
    BY <2>1, <2>2
<1> QED
  BY <1>1, <1>2

LEMMA InsideCounts ==
  ASSUME TypeInv, StageKnown, TypeInv', StageKnown',
         Truncate \/ Fill \/ Reload \/ Reconfigure \/ AwaitIp \/ AwaitRoute
  PROVE  StepsLeft' < StepsLeft
<1>1. phase \in Writing
  BY DEF Writing, Inside, Truncate, Fill, Reload, Reconfigure, AwaitIp, AwaitRoute
<1>2. CASE Return(TRUE) \/ Return(FALSE)
  BY <1>1, <1>2, ReturnCounts
<1>3. CASE ~(Return(TRUE) \/ Return(FALSE))
  <2>1. /\ UNCHANGED op
        /\ \/ phase = "truncate" /\ phase' = "fill"
           \/ phase = "fill" /\ phase' = "reload"
           \/ phase = "reload" /\ phase' = "reconfigure"
           \/ phase = "reconfigure" /\ phase' = "await_ip" /\ polls' = 0
           \/ phase = "await_ip" /\ phase' = phase /\ polls' = polls + 1
           \/ phase = "await_ip" /\ phase' = "await_route" /\ polls' = 0
           \/ phase = "await_route" /\ phase' = phase /\ polls' = polls + 1
    BY <1>3 DEF Truncate, Fill, Reload, Reconfigure, AwaitIp, AwaitRoute, AddressFound,
       CountAttempt
  <2> QED
    BY <2>1 DEF TypeInv, TypeOK, StageKnown, StepsLeft, AfterDhcp, Writing, Inside,
       SelectLeft, DhcpLeft
<1> QED
  BY <1>2, <1>3

LEMMA CheckCounts ==
  ASSUME TypeInv, StageKnown, TypeInv',
         \/ enable_interface \/ check_link_availability \/ AlreadyHasIp
         \/ check_upstream_router \/ check_internet_routability \/ check_dns_resolution
         \/ ShutdownOthers
  PROVE  StepsLeft' < StepsLeft
<1> USE DEF TypeInv, TypeOK, StageKnown, StepsLeft, StageLeft, AfterLink, AfterDhcp, Writing,
        Inside, Then
<1>1. CASE enable_interface
  BY <1>1 DEF enable_interface
<1>2. CASE check_link_availability
  BY <1>2 DEF check_link_availability, Passes, Fails
<1>3. CASE AlreadyHasIp
  BY <1>3 DEF AlreadyHasIp, Passes
<1>4. CASE check_upstream_router
  BY <1>4 DEF check_upstream_router, Passes, Fails
<1>5. CASE check_internet_routability
  BY <1>5 DEF check_internet_routability, Passes, Fails
<1>6. CASE check_dns_resolution
  BY <1>6 DEF check_dns_resolution, Passes, Fails
<1>7. CASE ShutdownOthers
  BY <1>7 DEF ShutdownOthers
<1> QED
  BY <1>1, <1>2, <1>3, <1>4, <1>5, <1>6, <1>7

LEMMA OtherCounts ==
  ASSUME TypeInv, StageKnown, TypeInv',
         \/ ConfigureDhcp \/ select_primary_interface \/ CleanupDone
         \/ \E i \in Interfaces : cleanup_network_config(i)
  PROVE  StepsLeft' < StepsLeft
<1> USE TodoIsFinite DEF TypeInv, TypeOK, StageKnown, StepsLeft, StageLeft, AfterLink,
        AfterDhcp, Writing, Inside
<1>1. CASE ConfigureDhcp \/ select_primary_interface
  BY <1>1 DEF ConfigureDhcp, select_primary_interface, DhcpLeft, SelectLeft
<1>2. CASE CleanupDone
  BY <1>2 DEF CleanupDone, Between, Ticking
<1>3. ASSUME NEW i \in Interfaces, cleanup_network_config(i)
      PROVE  StepsLeft' < StepsLeft
  <2>1. Cardinality(todo') = Cardinality(todo) - 1 /\ phase = "cleanup" /\ phase' = phase
    BY <1>3 DEF cleanup_network_config
  <2> QED
    BY <2>1
<1> QED
  BY <1>1, <1>2, <1>3

\* Nothing but a key or a restart gives the program more to do.
StepsCounted ==
  [][/\ Program => StepsLeft' < StepsLeft
     /\ Network => StepsLeft' = StepsLeft]_vars

\* For any interfaces and limits, and whatever networkd, the network and earlier
\* sessions do: between two keys the program takes no more steps than its waits
\* and checks have attempts and an abort has units to remove, and has none left
\* only where it waits for a key.
THEOREM TicksBounded ==
  Spec => [](StepsLeft \in 0 .. Longest /\ (StepsLeft = 0 => Ended)) /\ StepsCounted
<1>1. Init => StageKnown
  BY DEF Init, StageKnown, Writing, Inside
<1>2. TypeInv /\ StageKnown /\ [Next]_vars => StageKnown'
  BY InsideTicks, CheckTicks, OtherTicks DEF Next, Program
<1>3. TypeInv /\ StageKnown /\ TypeInv' /\ StageKnown' /\ [Next]_vars =>
        [/\ Program => StepsLeft' < StepsLeft
         /\ Network => StepsLeft' = StepsLeft]_vars
  <2> SUFFICES ASSUME TypeInv, StageKnown, TypeInv', StageKnown'
               PROVE  /\ Program => StepsLeft' < StepsLeft
                      /\ Network => StepsLeft' = StepsLeft
    OBVIOUS
  <2>1. Program => StepsLeft' < StepsLeft
    BY InsideCounts, CheckCounts, OtherCounts DEF Program
  <2>2. Network => StepsLeft' = StepsLeft
    BY DEF Network, GetAddress, GetRoute, LoseLease, sessionVars, StepsLeft, StageLeft,
       SelectLeft, DhcpLeft
  <2> QED
    BY <2>1, <2>2
<1> QED
  BY <1>1, <1>2, <1>3, StepsAreFinite, TypesAlways, PTL DEF Spec, StepsCounted
=============================================================================
