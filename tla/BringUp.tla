------------------------------- MODULE BringUp -------------------------------
(***************************************************************************)
(* What a bring-up promises whatever executor it runs on: its stages are   *)
(* passed one by one, each in one step; a stage is given up after as many  *)
(* failures in a row as it is allowed, counted from when it was reached;   *)
(* and the user may leave or begin anew at any time.                       *)
(***************************************************************************)
EXTENDS Naturals

CONSTANT Limit   \* the failures of a stage that are an error, by stage

VARIABLES
  stage,      \* what is to be done next, or the end: "online" or "error"; or
              \* "away", when no interface is being brought up
  failures    \* of the stage, since it was reached

vars == <<stage, failures>>

After == [enable   |-> "link",     link |-> "address", address |-> "router",
          router   |-> "internet", internet |-> "dns", dns     |-> "primary",
          primary  |-> "online"]

Init ==
  /\ stage \in {"away", "enable", "address"}
  /\ failures = 0

\* An interface is chosen, with a carrier or without.
Begin == stage' \in {"enable", "link"} /\ failures' = 0

\* A carrier was waited for, or a network joined: there is a link.
BeginLinked == stage = "away" /\ stage' = "address" /\ failures' = 0

Pass ==
  /\ stage \in DOMAIN After
  /\ stage' = After[stage] /\ failures' = 0

Fail ==
  /\ stage \in DOMAIN Limit /\ failures + 1 < Limit[stage]
  /\ failures' = failures + 1
  /\ UNCHANGED stage

GiveUp ==
  /\ stage \in DOMAIN Limit /\ failures + 1 >= Limit[stage]
  /\ stage' = "error" /\ failures' = 0

Leave == stage' = "away" /\ failures' = 0

Next == Begin \/ BeginLinked \/ Pass \/ Fail \/ GiveUp \/ Leave

Spec == Init /\ [][Next]_vars
=============================================================================
