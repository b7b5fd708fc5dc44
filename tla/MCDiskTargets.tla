---------------------------- MODULE MCDiskTargets ----------------------------
(***************************************************************************)
(* A machine for model checking DiskTargets: three SATA disks whose sizes  *)
(* form a chain (neighbours are similar, the ends are not), a USB disk of  *)
(* the same model as one of them, an SD card without a model, and a block  *)
(* device of another kind, without a device directory.                     *)
(***************************************************************************)
EXTENDS DiskTargets, TLC

MCFamily == <<"sd", "sd", "sd", "sd", "mmcblk", "other">>
MCBytes  == <<500, 508, 516, 508, 510, 600>>
MCModel  == <<3, 1, 2, 1, 0, 0>>
MCBus    == <<"other", "other", "other", "usb", "sdio", "other">>

\* The boot stick, a btrfs RAID of two disks, and a volume of the mapper.
MCVolumes == {[source |-> 4, on |-> {4}],
              [source |-> 1, on |-> {1, 2}],
              [source |-> 0, on |-> {3}]}
=============================================================================
