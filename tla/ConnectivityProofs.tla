-------------------------- MODULE ConnectivityProofs --------------------------
(***************************************************************************)
(* Connectivity, for any nameservers and any limits.                       *)
(***************************************************************************)
EXTENDS Connectivity, Integers, TLAPS

USE DEF stateVars, readVars, lanVars, fixedVars, Move, Reach, Fail, Step,
        BringUpState

\* What configure_dhcp reads and writes are nameservers, and what it counts
\* are numbers.
LEMMA TypeStep == TypeOK /\ [Next]_vars => TypeOK'
<1> SUFFICES ASSUME TypeOK, [Next]_vars PROVE TypeOK'
    OBVIOUS
<1> USE DEF TypeOK
<1>1. PublicDns \subseteq NameServers /\ LanDns \subseteq NameServers
        /\ Gateway \in NameServers
  BY DEF NameServers
<1>2. \A content \in LeaseContent :
        /\ content \subseteq LanDns
        /\ local_resolver_candidates(content) \subseteq NameServers
  BY <1>1 DEF LeaseContent, local_resolver_candidates
<1>3. CASE AlreadyHasIp \/ StartDhcp
  BY <1>3 DEF AlreadyHasIp, StartDhcp
<1>4. CASE configure_dhcp
  <2>1. CASE Trigger \/ PollAddress \/ LookForRoute \/ PollRoute
    BY <2>1 DEF Trigger, PollAddress, LookForRoute, PollRoute
  <2>2. CASE WriteLeaseDns
    BY <1>1, <1>2, <2>2 DEF WriteLeaseDns
  <2>3. CASE ReadResolvers
    BY <1>2, <2>3 DEF ReadResolvers
  <2>4. CASE Repair
    BY <1>1, <2>4 DEF Repair, select_working_resolvers
  <2> QED
    BY <1>4, <2>1, <2>2, <2>3, <2>4 DEF configure_dhcp
<1>5. CASE CheckRouter \/ CheckInternet \/ CheckDns
  <2>1. CASE CheckRouter
    BY <2>1 DEF CheckRouter, Check
  <2>2. CASE CheckInternet
    BY <2>2 DEF CheckInternet, Check
  <2>3. CASE CheckDns
    BY <2>3 DEF CheckDns, Check
  <2> QED
    BY <1>5, <2>1, <2>2, <2>3
<1>6. CASE GoOnline
  BY <1>6 DEF GoOnline
<1>7. CASE LanChanges
  BY <1>7 DEF LanChanges, Routes, Family
<1>8. CASE HookWrites
  BY <1>1, <1>8 DEF HookWrites
<1>9. CASE UNCHANGED vars
  BY <1>9 DEF vars
<1> QED
  BY <1>3, <1>4, <1>5, <1>6, <1>7, <1>8, <1>9 DEF Next, advance_connectivity

\* Every reachable state of a bring-up is well typed.
THEOREM ConnectivityTypes == Spec => []TypeOK
<1>1. Init => TypeOK
  BY DEF Init, TypeOK, Routes, Family, NameServers
<1> QED
  BY <1>1, TypeStep, PTL DEF Spec

----------------------------------------------------------------------------
\* select_working_resolvers: what it returns resolves whenever what it was
\* given does.
LEMMA SelectionResolves ==
  resolves(local \cup PublicDns) => resolves(select_working_resolvers)
BY DEF select_working_resolvers, resolves

\* The resolver repair leaves a server that answers if it knows of one,
\* however many servers there are and whichever of them are filtered.
THEOREM RepairSound == Spec => RepairFindsResolver
<1>1. [Next]_vars =>
        [Repair /\ writable /\ resolv = current /\ resolves(local \cup PublicDns)
           => resolves(resolv')]_vars
  <2> SUFFICES ASSUME Repair, writable, resolv = current,
                      resolves(local \cup PublicDns)
               PROVE  resolves(resolv')
      OBVIOUS
  <2>1. resolv' = select_working_resolvers
    BY DEF Repair
  <2>2. answering' = answering
    BY DEF Repair
  <2> QED
    BY <2>1, <2>2, SelectionResolves DEF resolves
<1> QED
  BY <1>1, PTL DEF Spec, RepairFindsResolver

----------------------------------------------------------------------------
\* configure_dhcp is inside the stage it began in.
Inside == step # "idle" => network_state = "DhcpConfiguring"

\* The steps of one tick: which of them end a stage, and how.
LEMMA DhcpTicks ==
  ASSUME Inside, AlreadyHasIp \/ StartDhcp \/ configure_dhcp
  PROVE  Inside' /\ [Ticks!Next]_(Ticks!vars)
<1> USE DEF Inside, Stage, Checking
<1>1. /\ network_state = "DhcpConfiguring"
      /\ \/ UNCHANGED network_state
         \/ network_state' = "IpAssigned" /\ connectivity_retries' = 0 /\ step' = "idle"
         \/ network_state' = "Error" /\ step' = "idle"
  BY DEF AlreadyHasIp, StartDhcp, configure_dhcp, Trigger, PollAddress, LookForRoute,
     PollRoute, WriteLeaseDns, ReadResolvers, Repair
<1>2. CASE UNCHANGED network_state
  BY <1>1, <1>2 DEF Ticks!vars
<1>3. CASE network_state' = "IpAssigned"
  BY <1>1, <1>3 DEF Ticks!Next, Ticks!Pass, Ticks!After
<1>4. CASE network_state' = "Error"
  BY <1>1, <1>4 DEF Ticks!Next, Ticks!GiveUp
<1> QED
  BY <1>1, <1>2, <1>3, <1>4

LEMMA CheckTicks ==
  ASSUME TypeOK, Inside, CheckRouter \/ CheckInternet \/ CheckDns \/ GoOnline
  PROVE  Inside' /\ [Ticks!Next]_(Ticks!vars)
<1> USE LimitAssumption DEF Inside, Stage, Checking, TypeOK
<1> DEFINE Ticked(state, next, limit) ==
             /\ network_state = state /\ step' = "idle"
             /\ \/ network_state' = next /\ connectivity_retries' = 0
                \/ /\ connectivity_retries' = connectivity_retries + 1
                   /\ network_state' = IF connectivity_retries' >= limit THEN "Error"
                                                                        ELSE state
<1>1. ASSUME NEW state, NEW next, NEW limit, NEW passed, Check(state, next, limit, passed)
      PROVE  Ticked(state, next, limit)
  BY <1>1 DEF Check
<1>2. \/ Ticked("IpAssigned", "CheckingRouter", MAX_RETRIES)
      \/ Ticked("CheckingRouter", "CheckingInternet", MAX_RETRIES)
      \/ Ticked("CheckingInternet", "CheckingDns", DNS_MAX_RETRIES)
      \/ network_state = "CheckingDns" /\ network_state' = "Online" /\ step' = "idle"
  BY <1>1 DEF CheckRouter, CheckInternet, CheckDns, GoOnline
<1>3. CASE Ticked("IpAssigned", "CheckingRouter", MAX_RETRIES)
  BY <1>3 DEF Ticks!Next, Ticks!Pass, Ticks!After, Ticks!Fail, Ticks!GiveUp
<1>4. CASE Ticked("CheckingRouter", "CheckingInternet", MAX_RETRIES)
  BY <1>4 DEF Ticks!Next, Ticks!Pass, Ticks!After, Ticks!Fail, Ticks!GiveUp
<1>5. CASE Ticked("CheckingInternet", "CheckingDns", DNS_MAX_RETRIES)
  BY <1>5 DEF Ticks!Next, Ticks!Pass, Ticks!After, Ticks!Fail, Ticks!GiveUp
<1>6. CASE network_state = "CheckingDns" /\ network_state' = "Online" /\ step' = "idle"
  BY <1>6 DEF Ticks!Next, Ticks!Pass, Ticks!After
<1> QED
  BY <1>2, <1>3, <1>4, <1>5, <1>6

\* For any limits and nameservers, and whatever the network and dhcpcd change
\* inside a tick, the bring-up on the initrd executor is one step per stage.
THEOREM InitrdBringsUp == Spec => BringsUp
<1>1. Init => Inside /\ Ticks!Init
  BY DEF Init, Inside, Ticks!Init, Stage, Checking
<1>2. TypeOK /\ Inside /\ [Next]_vars => Inside' /\ [Ticks!Next]_(Ticks!vars)
  <2> SUFFICES ASSUME TypeOK, Inside, [Next]_vars
               PROVE  Inside' /\ [Ticks!Next]_(Ticks!vars)
    OBVIOUS
  <2>1. CASE LanChanges \/ HookWrites \/ UNCHANGED vars
    BY <2>1 DEF LanChanges, HookWrites, vars, Inside, Ticks!vars, Stage, Checking
  <2> QED
    BY <2>1, DhcpTicks, CheckTicks DEF Next, advance_connectivity
<1> QED
  BY <1>1, <1>2, ConnectivityTypes, PTL DEF Spec, BringsUp, Ticks!Spec
----------------------------------------------------------------------------
\* The steps that may still be ahead of a bring-up: of the checks from a state
\* on, of what configure_dhcp does after its waits, and of the waits.
ChecksLeft(used) ==
  [DhcpConfiguring  |-> 2 * MAX_RETRIES + DNS_MAX_RETRIES + 1,
   IpAssigned       |-> 2 * MAX_RETRIES + DNS_MAX_RETRIES + 1 - used,
   CheckingRouter   |-> MAX_RETRIES + DNS_MAX_RETRIES + 1 - used,
   CheckingInternet |-> DNS_MAX_RETRIES + 1 - used,
   CheckingDns      |-> 1,
   Online           |-> 0,
   Error            |-> 0]

DhcpLeft(used) ==
  [repair    |-> 1, read |-> 2, lease_dns |-> 3,
   route     |-> 3 + ROUTE_ATTEMPTS - used,
   look      |-> 4 + ROUTE_ATTEMPTS,
   lease     |-> 4 + ROUTE_ATTEMPTS + IP_ATTEMPTS - used,
   trigger   |-> 5 + ROUTE_ATTEMPTS + IP_ATTEMPTS,
   idle      |-> 6 + ROUTE_ATTEMPTS + IP_ATTEMPTS]

StepsLeft ==
  ChecksLeft(connectivity_retries)[network_state]
  + (IF network_state = "DhcpConfiguring" THEN DhcpLeft(attempt)[step] ELSE 0)

Longest ==
  2 * MAX_RETRIES + DNS_MAX_RETRIES + ROUTE_ATTEMPTS + IP_ATTEMPTS + 7

\* A wait or a check that goes on has attempts left.
AttemptsLeft ==
  /\ step = "lease" => attempt < IP_ATTEMPTS
  /\ step = "route" => attempt < ROUTE_ATTEMPTS
  /\ network_state \in {"IpAssigned", "CheckingRouter"} => connectivity_retries < MAX_RETRIES
  /\ network_state = "CheckingInternet" => connectivity_retries < DNS_MAX_RETRIES

BoundInv == TypeOK /\ Inside /\ AttemptsLeft

\* With nothing left the bring-up is over.
Ended == network_state \in {"Online", "Error"}

LEMMA StepsAreFinite ==
  BoundInv => StepsLeft \in 0 .. Longest /\ (StepsLeft = 0 => Ended)
<1> SUFFICES ASSUME BoundInv
             PROVE  StepsLeft \in 0 .. Longest /\ (StepsLeft = 0 => Ended)
  OBVIOUS
<1> USE AttemptAssumption, LimitAssumption
    DEF BoundInv, TypeOK, Inside, AttemptsLeft, StepsLeft, Longest
<1>1. CASE network_state = "DhcpConfiguring"
  <2>1. StepsLeft = 2 * MAX_RETRIES + DNS_MAX_RETRIES + 1 + DhcpLeft(attempt)[step]
    BY <1>1 DEF ChecksLeft
  <2>2. DhcpLeft(attempt)[step] \in 0 .. (6 + ROUTE_ATTEMPTS + IP_ATTEMPTS)
    BY DEF DhcpLeft
  <2> QED
    BY <2>1, <2>2
<1>2. CASE network_state # "DhcpConfiguring"
  BY <1>2 DEF ChecksLeft, Ended
<1> QED
  BY <1>1, <1>2

\* Every step of a tick is one of them.
Counted == BoundInv' /\ StepsLeft' < StepsLeft

LEMMA DhcpCounts ==
  ASSUME BoundInv, TypeOK', Inside', AlreadyHasIp \/ StartDhcp \/ configure_dhcp
  PROVE  Counted
<1> USE AttemptAssumption, LimitAssumption
    DEF BoundInv, TypeOK, Inside, AttemptsLeft, StepsLeft, Counted
<1> DEFINE All == 2 * MAX_RETRIES + DNS_MAX_RETRIES + 1
<1>1. network_state = "DhcpConfiguring"
  BY DEF AlreadyHasIp, StartDhcp, configure_dhcp, Trigger, PollAddress, LookForRoute,
     PollRoute, WriteLeaseDns, ReadResolvers, Repair
<1>2. /\ StepsLeft = All + DhcpLeft(attempt)[step]
      /\ DhcpLeft(attempt)[step] \in Int /\ DhcpLeft(attempt)[step] > 0
  BY <1>1 DEF ChecksLeft, DhcpLeft
<1>3. ASSUME network_state' = "IpAssigned", connectivity_retries' = 0, step' = "idle"
      PROVE  Counted
  <2>1. StepsLeft' = All /\ All \in Int
    BY <1>3 DEF ChecksLeft
  <2>2. BoundInv'
    BY <1>3
  <2> QED
    BY <1>2, <2>1, <2>2
<1>4. ASSUME network_state' = "Error", step' = "idle"
      PROVE  Counted
  <2>1. StepsLeft' = 0 /\ All \in Int /\ All > 0
    BY <1>4 DEF ChecksLeft
  <2>2. BoundInv'
    BY <1>4
  <2> QED
    BY <1>2, <2>1, <2>2
<1>5. ASSUME network_state' = network_state, AttemptsLeft',
             DhcpLeft(attempt')[step'] < DhcpLeft(attempt)[step]
      PROVE  Counted
  <2>1. StepsLeft' = All + DhcpLeft(attempt')[step']
    BY <1>1, <1>5 DEF ChecksLeft, DhcpLeft
  <2>2. DhcpLeft(attempt)[step] \in Int /\ DhcpLeft(attempt')[step'] \in Int
    BY DEF DhcpLeft
  <2> QED
    BY <1>2, <1>5, <2>1, <2>2
<1>6. CASE AlreadyHasIp \/ Repair
  BY <1>3, <1>6 DEF AlreadyHasIp, Repair
<1>7. CASE StartDhcp \/ LookForRoute \/ WriteLeaseDns \/ ReadResolvers
  BY <1>1, <1>5, <1>7 DEF StartDhcp, LookForRoute, WriteLeaseDns, ReadResolvers, DhcpLeft
<1>8. CASE Trigger
  BY <1>1, <1>4, <1>5, <1>8 DEF Trigger, DhcpLeft
<1>9. CASE PollAddress
  BY <1>1, <1>4, <1>5, <1>9 DEF PollAddress, DhcpLeft
<1>10. CASE PollRoute
  BY <1>1, <1>5, <1>10 DEF PollRoute, DhcpLeft
<1> QED
  BY <1>6, <1>7, <1>8, <1>9, <1>10 DEF configure_dhcp

LEMMA CheckCounts ==
  ASSUME BoundInv, TypeOK', Inside', CheckRouter \/ CheckInternet \/ CheckDns \/ GoOnline
  PROVE  Counted
<1> USE AttemptAssumption, LimitAssumption
    DEF BoundInv, TypeOK, Inside, AttemptsLeft, StepsLeft, Counted, ChecksLeft
<1>1. CASE CheckRouter
  BY <1>1 DEF CheckRouter, Check
<1>2. CASE CheckInternet
  BY <1>2 DEF CheckInternet, Check
<1>3. CASE CheckDns
  BY <1>3 DEF CheckDns, Check
<1>4. CASE GoOnline
  BY <1>4 DEF GoOnline
<1> QED
  BY <1>1, <1>2, <1>3, <1>4

\* Each step of the program is one of those that were left, and nothing the
\* network does adds one.
StepsCounted ==
  [][IF advance_connectivity THEN StepsLeft' < StepsLeft ELSE StepsLeft' = StepsLeft]_vars

LEMMA BoundStep ==
  ASSUME BoundInv, [Next]_vars
  PROVE  /\ BoundInv'
         /\ IF advance_connectivity THEN StepsLeft' < StepsLeft ELSE StepsLeft' = StepsLeft
<1>1. TypeOK'
  BY TypeStep DEF BoundInv
<1>2. ASSUME UNCHANGED <<stateVars, step, attempt>>
      PROVE  BoundInv' /\ StepsLeft' = StepsLeft
  BY <1>1, <1>2 DEF BoundInv, Inside, AttemptsLeft, StepsLeft, ChecksLeft, DhcpLeft
<1>3. CASE advance_connectivity
  <2>1. Inside'
    BY DhcpTicks, CheckTicks, <1>3 DEF advance_connectivity, BoundInv
  <2> QED
    BY <1>1, <1>3, <2>1, DhcpCounts, CheckCounts DEF advance_connectivity, Counted
<1>4. CASE ~advance_connectivity
  BY <1>2, <1>4 DEF Next, LanChanges, HookWrites, vars
<1> QED
  BY <1>3, <1>4

\* For any limits a bring-up takes no more steps of the program than its waits
\* and checks have attempts, whatever addresses, routes and answers come and go,
\* and has no step left only when it is over.
THEOREM BringUpBounded ==
  Spec => [](StepsLeft \in 0 .. Longest /\ (StepsLeft = 0 => Ended)) /\ StepsCounted
<1>1. Init => BoundInv
  <2> SUFFICES ASSUME Init PROVE BoundInv
    OBVIOUS
  <2>1. TypeOK
    BY DEF Init, TypeOK, Routes, Family, NameServers
  <2> QED
    BY <2>1 DEF Init, BoundInv, Inside, AttemptsLeft
<1>2. BoundInv /\ [Next]_vars =>
        /\ BoundInv'
        /\ [IF advance_connectivity THEN StepsLeft' < StepsLeft
                                    ELSE StepsLeft' = StepsLeft]_vars
  BY BoundStep
<1> QED
  BY <1>1, <1>2, StepsAreFinite, PTL DEF Spec, StepsCounted
=============================================================================
