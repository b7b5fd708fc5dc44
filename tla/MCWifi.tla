------------------------------- MODULE MCWifi -------------------------------
(***************************************************************************)
(* Radios for model checking WifiDetection: four access points, one of     *)
(* them hidden, one open, two of the same strength.                        *)
(***************************************************************************)
EXTENDS WifiDetection, TLC

MCWeakest    == -100
MCSignal     == <<-40, -70, -70, -55>>
MCProtection == <<"rsn", "open", "wep", "wpa">>
=============================================================================
