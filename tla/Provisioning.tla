----------------------------- MODULE Provisioning -----------------------------
(***************************************************************************)
(* What an installation session promises, without screens, retries, users  *)
(* or failures: an interface is proven by showing each check for it; only  *)
(* while one is proven are the disks written, at most once and never in a  *)
(* reconfiguration; only the proven interface is saved; and "installed" is *)
(* claimed by nothing but the step that wrote the disks.                   *)
(***************************************************************************)
CONSTANTS Ifaces, Check, None,
          SparesDisks      \* a reconfiguration: the disks are not to be touched

VARIABLES
  shown,       \* checks shown for interfaces since the last start
  proven,      \* the interface proven to be online, or None
  written,     \* the disks were written
  saved,       \* interface whose configuration was saved, or None
  installed    \* the session claims to have installed

vars == <<shown, proven, written, saved, installed>>

Init ==
  /\ shown = {}
  /\ proven = None
  /\ written = FALSE
  /\ saved = None
  /\ installed = FALSE

\* One more check is shown, for an interface not yet proven.
Show ==
  /\ proven = None
  /\ \E i \in Ifaces, c \in Check : shown' = shown \cup {<<i, c>>}
  /\ UNCHANGED <<proven, written, saved, installed>>

\* All of them were shown for an interface.
Prove ==
  /\ proven = None
  /\ \E i \in Ifaces :
       /\ {i} \X Check \subseteq shown
       /\ proven' = i
  /\ UNCHANGED <<shown, written, saved, installed>>

\* The user starts over, with or without forgetting what was shown.  Once
\* the disks are written there is no way back to this.
StartOver ==
  /\ ~written
  /\ proven' = None
  /\ shown' \in {shown, {}}
  /\ UNCHANGED <<written, saved, installed>>

Write ==
  /\ ~SparesDisks
  /\ proven # None
  /\ ~written
  /\ written' = TRUE
  /\ saved' \in {saved, proven}
  /\ installed' \in BOOLEAN
  /\ UNCHANGED <<shown, proven>>

Save ==
  /\ proven # None
  /\ saved' = proven
  /\ UNCHANGED <<shown, proven, written, installed>>

\* Rebooted, left or aborted.
End ==
  /\ installed' = FALSE
  /\ UNCHANGED <<shown, proven, written, saved>>

Next == Show \/ Prove \/ StartOver \/ Write \/ Save \/ End

Spec == Init /\ [][Next]_vars
=============================================================================
