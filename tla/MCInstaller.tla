----------------------------- MODULE MCInstaller -----------------------------
(***************************************************************************)
(* Constant values for model checking Installer: the machines it runs on.  *)
(***************************************************************************)
EXTENDS Installer

\* A single disk, so a single group of one.
OneDiskSize  == [g \in 1..1 |-> 1]
OneDiskBytes == [g \in 1..1 |-> 1]
OneDiskFirst == [g \in 1..1 |-> 1]

\* Six disks: a lone one, then a pair, then three: every RAID level is
\* offered, and some group is too small for each of the btrfs ones.
MixedSize  == <<1, 2, 3>>
MixedBytes == <<9, 2, 3>>
MixedFirst == <<1, 2, 4>>
=============================================================================
