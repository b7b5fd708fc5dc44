----------------------------- MODULE Connectivity -----------------------------
(***************************************************************************)
(* The bring-up of one interface from DhcpConfiguring on, with the initrd  *)
(* executor's operations in detail: configure_dhcp, which waits for an     *)
(* address, then for a route, and then writes, tests and repairs           *)
(* /etc/resolv.conf, and the checks of router, internet and DNS.  The      *)
(* network and dhcpcd change addresses, routes and resolv.conf between its *)
(* steps.  Lists of nameservers are sets: every user of them tries all.    *)
(***************************************************************************)
EXTENDS Naturals

CONSTANTS
  PublicDns,       \* PUBLIC_FALLBACK_DNS
  LanDns,          \* nameservers a DHCP server may offer
  Gateway,         \* the IPv4 gateway's address, as a nameserver
  IP_ATTEMPTS, ROUTE_ATTEMPTS,     \* configure_dhcp's 30 and 15
  MAX_RETRIES, DNS_MAX_RETRIES

NameServers == PublicDns \cup LanDns \cup {Gateway}

ASSUME AttemptAssumption ==
  /\ IP_ATTEMPTS \in Nat \ {0}
  /\ ROUTE_ATTEMPTS \in Nat \ {0}

ASSUME LimitAssumption ==
  /\ MAX_RETRIES \in Nat \ {0}
  /\ DNS_MAX_RETRIES \in Nat \ {0}

Family == {"v4", "v6"}

\* Where the tick is: between ticks, or inside configure_dhcp.
Step == {"idle", "trigger", "lease", "look", "route", "lease_dns", "read",
         "repair"}

BringUpState == {"DhcpConfiguring", "IpAssigned", "CheckingRouter",
                 "CheckingInternet", "CheckingDns", "Online", "Error"}

VARIABLES
  network_state, connectivity_retries,
  step, attempt,
  current, local,      \* resolvers configure_dhcp has read
  resolv,              \* nameservers in /etc/resolv.conf
  \* The machine and the network.
  addressed, routed,   \* families with an address, with a default route
  hook,                \* dhcpcd's resolvconf hook: has it run for this lease?
  offered,             \* nameservers the DHCP server hands out
  answering,           \* nameservers that answer: the others are filtered
  reachable,           \* families over which public hosts answer on :443 or to ping
  writable             \* /etc/resolv.conf can be written

stateVars == <<network_state, connectivity_retries>>
readVars  == <<current, local>>
lanVars   == <<addressed, routed>>
fixedVars == <<offered, answering, reachable, writable>>
vars == <<stateVars, step, attempt, readVars, resolv, lanVars, hook, fixedVars>>

TypeOK ==
  /\ network_state \in BringUpState
  /\ connectivity_retries \in Nat
  /\ step \in Step
  /\ attempt \in Nat
  /\ current \in SUBSET NameServers
  /\ local \in SUBSET NameServers
  /\ resolv \in SUBSET NameServers
  /\ addressed \in SUBSET Family
  /\ routed \in SUBSET Family
  /\ hook \in {"none", "due", "done"}
  /\ offered \in SUBSET LanDns
  /\ answering \in SUBSET NameServers
  /\ reachable \in SUBSET Family
  /\ writable \in BOOLEAN

\* Routes next to addresses `a': IPv4 has none without an address, IPv6 may
\* have one by a router's advertisement alone.
Routes(a) == SUBSET (a \cup {"v6"})

\* The interface has link.  It may be addressed already (by the kernel, or by
\* an earlier attempt), and the image may come with the public servers in
\* resolv.conf.
Init ==
  /\ network_state = "DhcpConfiguring"
  /\ connectivity_retries = 0
  /\ step = "idle"
  /\ attempt = 0
  /\ current = {} /\ local = {}
  /\ resolv \in {{}, PublicDns}
  /\ addressed \in SUBSET Family
  /\ routed \in Routes(addressed)
  /\ hook = "none"
  /\ offered \in SUBSET LanDns
  /\ answering \in SUBSET NameServers
  /\ reachable \in SUBSET Family
  /\ writable \in BOOLEAN

----------------------------------------------------------------------------
(***************************************************************************)
(* The network around the interface.                                       *)
(***************************************************************************)
\* dhcpcd and router advertisements add and remove addresses and routes.
LanChanges ==
  /\ network_state \notin {"Online", "Error"}
  /\ addressed' \in SUBSET Family
  /\ routed' \in Routes(addressed')
  /\ UNCHANGED <<stateVars, step, attempt, readVars, resolv, hook, fixedVars>>

\* The hook rewrites resolv.conf from the lease, at a moment of its own.
HookWrites ==
  /\ hook = "due"
  /\ network_state \notin {"Online", "Error"}
  /\ addressed # {}
  /\ hook' = "done"
  /\ resolv' = IF writable /\ offered # {} THEN offered ELSE resolv
  /\ UNCHANGED <<stateVars, step, attempt, readVars, lanVars, fixedVars>>

----------------------------------------------------------------------------
(***************************************************************************)
(* configure_dhcp.                                                         *)
(***************************************************************************)
Move(s) == step' = s

\* check_ip_sysfs, and check_upstream_router: either family will do.
has_ip    == addressed # {}
has_route == routed # {}

\* Mutant: the failures so far count against the next check.
ReachCounting(state) ==
  /\ network_state' = state
  /\ UNCHANGED connectivity_retries
  /\ Move("idle")

Reach(state) ==
  /\ network_state' = state
  /\ connectivity_retries' = 0
  /\ Move("idle")

Fail ==
  /\ network_state' = "Error"
  /\ UNCHANGED connectivity_retries
  /\ Move("idle")

\* The tick finds an address: DHCP is skipped, and with it the resolver test.
AlreadyHasIp ==
  /\ step = "idle"
  /\ network_state = "DhcpConfiguring"
  /\ has_ip
  /\ Reach("IpAssigned")
  /\ UNCHANGED <<attempt, readVars, resolv, lanVars, hook, fixedVars>>

StartDhcp ==
  /\ step = "idle"
  /\ network_state = "DhcpConfiguring"
  /\ ~has_ip
  /\ Move("trigger")
  /\ UNCHANGED <<stateVars, attempt, readVars, resolv, lanVars, hook, fixedVars>>

\* try_trigger_dhcp.
Trigger ==
  /\ step = "trigger"
  /\ \/ Fail /\ UNCHANGED <<attempt, hook>>
     \/ /\ Move("lease")
        /\ attempt' = 0
        /\ hook' = "due"
        /\ UNCHANGED stateVars
  /\ UNCHANGED <<readVars, resolv, lanVars, fixedVars>>

PollAddress ==
  /\ step = "lease"
  /\ attempt' = attempt + 1
  /\ \/ has_ip /\ Move("look") /\ UNCHANGED stateVars
     \/ ~has_ip /\ attempt' < IP_ATTEMPTS /\ UNCHANGED <<step, stateVars>>
     \/ ~has_ip /\ attempt' >= IP_ATTEMPTS /\ Fail
  /\ UNCHANGED <<readVars, resolv, lanVars, hook, fixedVars>>

\* A route that is there already needs no waiting.
LookForRoute ==
  /\ step = "look"
  /\ Move(IF has_route THEN "lease_dns" ELSE "route")
  /\ attempt' = 0
  /\ UNCHANGED <<stateVars, readVars, resolv, lanVars, hook, fixedVars>>

\* Mutant: waiting for the route has no limit.
PollRouteForEver ==
  /\ step = "route"
  /\ attempt' = attempt
  /\ Move(IF has_route THEN "lease_dns" ELSE "route")
  /\ UNCHANGED <<stateVars, readVars, resolv, lanVars, hook, fixedVars>>

\* The wait for a route is given up without an error.
PollRoute ==
  /\ step = "route"
  /\ attempt' = attempt + 1
  /\ Move(IF has_route \/ attempt' >= ROUTE_ATTEMPTS THEN "lease_dns" ELSE "route")
  /\ UNCHANGED <<stateVars, readVars, resolv, lanVars, hook, fixedVars>>

\* dhcp_resolv_content: what the run directory or the lease shows, if anything.
LeaseContent == {offered, {}}

\* write_resolv_conf_from_lease.
WriteLeaseDns ==
  /\ step = "lease_dns"
  /\ \E content \in LeaseContent :
       resolv' = IF ~writable THEN resolv
                 ELSE IF content # {} THEN content
                 ELSE IF resolv # {} THEN resolv
                 ELSE PublicDns
  /\ Move("read")
  /\ UNCHANGED <<stateVars, attempt, readVars, lanVars, hook, fixedVars>>

\* local_resolver_candidates: the lease's servers and the IPv4 gateway.
local_resolver_candidates(content) ==
  content \cup (IF "v4" \in routed THEN {Gateway} ELSE {})

\* ensure_working_resolver reads what is there and what could be there ...
ReadResolvers ==
  /\ step = "read"
  /\ current' = resolv
  /\ \E content \in LeaseContent : local' = local_resolver_candidates(content)
  /\ Move("repair")
  /\ UNCHANGED <<stateVars, attempt, resolv, lanVars, hook, fixedVars>>

\* A name resolves via a list of servers if one of them answers.
resolves(servers) == servers \cap answering # {}

\* Mutant: the seeded public servers are kept instead of the local ones.
select_public_resolvers == IF resolves(current) THEN current ELSE PublicDns

select_working_resolvers ==
  IF resolves(current) THEN current ELSE local \cup PublicDns

\* ... and writes only if it chose something else.
Repair ==
  /\ step = "repair"
  /\ resolv' = IF writable /\ select_working_resolvers # current
               THEN select_working_resolvers ELSE resolv
  /\ Reach("IpAssigned")
  /\ UNCHANGED <<attempt, readVars, lanVars, hook, fixedVars>>

----------------------------------------------------------------------------
(***************************************************************************)
(* The checks, one per tick.                                               *)
(***************************************************************************)
Check(state, next, limit, passed) ==
  /\ step = "idle"
  /\ network_state = state
  /\ \/ passed /\ Reach(next)
     \/ /\ ~passed
        /\ connectivity_retries' = connectivity_retries + 1
        /\ network_state' = IF connectivity_retries' >= limit THEN "Error" ELSE state
        /\ UNCHANGED step
  /\ UNCHANGED <<attempt, readVars, resolv, lanVars, hook, fixedVars>>

CheckRouter == Check("IpAssigned", "CheckingRouter", MAX_RETRIES, has_route)

\* routability_local_first: a local resolver, or else a public host over
\* IPv4, or over IPv6 if the interface has a global address.
CheckInternet ==
  \E content \in LeaseContent :
    Check("CheckingRouter", "CheckingInternet", MAX_RETRIES,
          \/ resolves(local_resolver_candidates(content))
          \/ "v4" \in reachable
          \/ "v6" \in addressed \cap reachable)

\* nameserver_candidates: local, then resolv.conf, then public servers.
CheckDns ==
  \E content \in LeaseContent :
    Check("CheckingInternet", "CheckingDns", DNS_MAX_RETRIES,
          resolves(local_resolver_candidates(content) \cup resolv \cup PublicDns))

GoOnline ==
  /\ step = "idle"
  /\ network_state = "CheckingDns"
  /\ network_state' = "Online"
  /\ UNCHANGED <<connectivity_retries, step, attempt, readVars, resolv,
                 lanVars, hook, fixedVars>>

configure_dhcp ==
  \/ Trigger \/ PollAddress \/ LookForRoute \/ PollRoute
  \/ WriteLeaseDns \/ ReadResolvers \/ Repair

advance_connectivity ==
  \/ AlreadyHasIp \/ StartDhcp \/ configure_dhcp
  \/ CheckRouter \/ CheckInternet \/ CheckDns \/ GoOnline

Next == advance_connectivity \/ LanChanges \/ HookWrites

Spec == Init /\ [][Next]_vars

\* The executor is called synchronously, tick after tick, and does not stop.
FairSpec == Spec /\ WF_vars(advance_connectivity)
----------------------------------------------------------------------------
\* The stage of a bring-up that a network state stands for.
Stage == [DhcpConfiguring |-> "address",  IpAssigned       |-> "router",
          CheckingRouter  |-> "internet", CheckingInternet |-> "dns",
          CheckingDns     |-> "primary",  Online           |-> "online",
          Error           |-> "error"]

Checking == {"IpAssigned", "CheckingRouter", "CheckingInternet"}

\* The repair never settles for servers that are filtered: if resolv.conf was
\* not rewritten under it, and one of the servers it knows of (the lease's,
\* the gateway, the public ones) answers, then so does one it leaves there.
RepairFindsResolver ==
  [][Repair /\ writable /\ resolv = current /\ resolves(local \cup PublicDns)
       => resolves(resolv')]_vars

\* For the installer a bring-up is one step per stage, whose checks have budgets
\* of their own: so it is on the initrd executor, with all that configure_dhcp
\* waits for, reads and writes within the one step from "address" to "router".
Ticks == INSTANCE BringUp WITH
  Limit    <- [address |-> 1, router |-> MAX_RETRIES, internet |-> MAX_RETRIES,
               dns     |-> DNS_MAX_RETRIES],
  stage    <- Stage[network_state],
  failures <- IF network_state \in Checking THEN connectivity_retries ELSE 0

BringsUp == Ticks!Spec

\* However address, route and lease come and go, the bring-up comes to an end:
\* every wait inside configure_dhcp, and every retry after it, is limited.
BringUpEnds == <>(network_state \in {"Online", "Error"})

\* configure_dhcp's comment: it makes sure that what resolves through
\* /etc/resolv.conf (curl, fetching SSH keys) has a server that works.  So it
\* is when the bring-up it was part of is done, where the file can be written.
CurlResolves ==
  network_state = "Online" /\ hook # "none" /\ writable => resolves(resolv)
=============================================================================
