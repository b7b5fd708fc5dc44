----------------------------- MODULE MCNetworkd -----------------------------
(***************************************************************************)
(* A machine for model checking Networkd: two interfaces, one of them with *)
(* the unit of an install.  Of the program's own units there is none yet,  *)
(* or one with a metric of the user's.  What an earlier session leaves     *)
(* this one writes too, and finds when it comes back to an interface.      *)
(***************************************************************************)
EXTENDS Networkd

MCGiven == {NoUnit, {"DHCP=yes", "[DHCPv4]", "RouteMetric=n"}}
=============================================================================
