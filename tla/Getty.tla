-------------------------------- MODULE Getty --------------------------------
(***************************************************************************)
(* The getty console's event loop (run_tui_loop), its key modes, its       *)
(* blanking and its journal panes.  A key press reaches the loop by two    *)
(* ways: evdev, which sees every key of the local keyboards and only tells *)
(* that there was one, and the terminal, which delivers it.  What a key    *)
(* is matters only when it is handled, so it is chosen there.              *)
(***************************************************************************)
EXTENDS Sequences, JournalPane

CONSTANTS
  NumUsers,          \* ssh_users: users whose keys can be imported
  WipeBoot,          \* how the factory reset is armed: "tryboot", "grub", "none"
  BlankTimeout,      \* SCREEN_BLANK_TIMEOUT, in steps of the clock
  MAX_TYPED          \* bound: keys waiting in the terminal

ASSUME GettyAssumption ==
  /\ NumUsers \in Nat
  /\ WipeBoot \in {"tryboot", "grub", "none"}
  /\ BlankTimeout \in Nat \ {0}

Pane == {"journal", "xe_journal"}

\* What is typed: a GitHub name is none, a valid or an invalid one; the reset's
\* confirmation is nothing, the word SLEDGEHAMMER, or something else.
Name == {"", "valid", "invalid"}
Confirmation == {"", "SLEDGEHAMMER", "other"}

NoPrompt == [open |-> FALSE, idx |-> 0, name |-> ""]
Closed == "closed"

VARIABLES
  at,                   \* point of the loop: "journals", "evdev", "poll", "exited"
  reconfigure_menu,
  ssh_input,            \* the key-import prompt
  sledgehammer_input,   \* the reset's confirmation, or Closed
  show_full_log,
  screen_blanked, discard_next_key,
  idle,                 \* time since last_activity
  pane,                 \* the two journal panes
  \* The keyboard and the machine.
  typed,                \* keys in the terminal: "wake" for one pressed in front of
                        \* a dark screen with none waiting, "other" for the rest
  evdev,                \* evdev events not yet read
  watched,              \* evdev reads the keyboard that feeds the terminal
  armed,                \* the next boot is the wipe boot
  machine               \* "running", "login", "reboot", "off" or "wipe"

promptVars == <<reconfigure_menu, ssh_input, sledgehammer_input>>
blankVars  == <<screen_blanked, discard_next_key, idle>>
paneVars   == <<show_full_log, pane>>
inputVars  == <<typed, evdev, watched>>
bootVars   == <<armed, machine>>
vars == <<at, promptVars, blankVars, paneVars, inputVars, bootVars>>

TypeOK ==
  /\ at \in {"journals", "evdev", "poll", "exited"}
  /\ reconfigure_menu \in BOOLEAN
  /\ ssh_input \in {NoPrompt} \cup
       [open : {TRUE}, idx : 0..(NumUsers - 1), name : Name]
  /\ sledgehammer_input \in Confirmation \cup {Closed}
  /\ show_full_log \in BOOLEAN
  /\ screen_blanked \in BOOLEAN
  /\ discard_next_key \in BOOLEAN
  /\ idle \in 0..BlankTimeout
  /\ pane \in [Pane -> PaneState]
  /\ typed \in Seq({"wake", "other"})
  /\ evdev \in SUBSET {"modifier", "key"}
  /\ watched \in BOOLEAN
  /\ armed \in BOOLEAN
  /\ machine \in {"running", "login", "reboot", "off", "wipe"}

Init ==
  /\ at = "journals"
  /\ reconfigure_menu = FALSE
  /\ ssh_input = NoPrompt
  /\ sledgehammer_input = Closed
  /\ show_full_log \in BOOLEAN
  /\ screen_blanked = FALSE
  /\ discard_next_key = FALSE
  /\ idle = 0
  /\ pane = [p \in Pane |-> EmptyPane]
  /\ typed = <<>>
  /\ evdev = {}
  /\ watched \in BOOLEAN
  /\ armed = FALSE
  /\ machine = "running"

----------------------------------------------------------------------------
(***************************************************************************)
(* The keyboard and the clock.                                             *)
(***************************************************************************)
On == machine = "running" /\ at # "exited"

Mark == IF screen_blanked /\ typed = <<>> THEN "wake" ELSE "other"

\* A key on a keyboard that is watched is seen by evdev and by the terminal,
\* any other (over SSH, say) by the terminal alone.
PressKey ==
  /\ On
  /\ Len(typed) < MAX_TYPED
  /\ typed' = Append(typed, Mark)
  /\ evdev' = IF watched THEN evdev \cup {"key"} ELSE evdev
  /\ UNCHANGED <<at, promptVars, blankVars, paneVars, watched, bootVars>>

\* Shift and its like, and keys that type nothing here (volume, or another
\* virtual terminal in front), are seen by evdev only.
PressUnseen ==
  /\ On
  /\ watched
  /\ \E e \in {"modifier", "key"} : evdev' = evdev \cup {e}
  /\ UNCHANGED <<at, promptVars, blankVars, paneVars, typed, watched, bootVars>>

TimePasses ==
  /\ On
  /\ idle < BlankTimeout
  /\ idle' = idle + 1
  /\ UNCHANGED <<at, promptVars, screen_blanked, discard_next_key, paneVars,
                 inputVars, bootVars>>

----------------------------------------------------------------------------
(***************************************************************************)
(* One iteration of the loop: the journals, then evdev and blanking, then  *)
(* at most one event of the terminal.                                      *)
(***************************************************************************)
ManageJournals ==
  /\ On
  /\ at = "journals"
  /\ at' = "evdev"
  /\ \E j \in manage_journal(pane["journal"]), x \in manage_journal(pane["xe_journal"]) :
       pane' = [journal |-> j, xe_journal |-> x]
  /\ UNCHANGED <<promptVars, blankVars, show_full_log, inputVars, bootVars>>

should_blank_screen == ~screen_blanked /\ idle >= BlankTimeout

\* Mutant: every wake-up by evdev lets the next key through.
KeyboardActiveKeeping ==
  /\ evdev # {}
  /\ evdev' = {}
  /\ screen_blanked' = FALSE
  /\ discard_next_key' = IF screen_blanked THEN FALSE ELSE discard_next_key
  /\ idle' = 0
  /\ UNCHANGED watched

\* There were events: the screen does not go dark, or lights up; the key that
\* did it is still to come from the terminal, unless it was a modifier.
KeyboardActive ==
  /\ evdev # {}
  /\ evdev' = {}
  /\ screen_blanked' = FALSE
  /\ discard_next_key' = IF screen_blanked THEN "key" \in evdev ELSE discard_next_key
  /\ idle' = 0
  /\ UNCHANGED watched

\* There were none, or the keyboard they came from was unplugged.
KeyboardQuiet ==
  /\ \/ evdev = {} /\ UNCHANGED watched
     \/ watched /\ watched' = FALSE
  /\ evdev' = {}
  /\ screen_blanked' = (screen_blanked \/ should_blank_screen)
  /\ UNCHANGED <<discard_next_key, idle>>

DrainEvdev ==
  /\ On
  /\ at = "evdev"
  /\ at' = "poll"
  /\ KeyboardActive \/ KeyboardQuiet
  /\ UNCHANGED <<promptVars, paneVars, typed, bootVars>>

\* Mutant: an event that is not a key counts as activity.
PollNothingActive ==
  /\ On
  /\ at = "poll"
  /\ screen_blanked => typed = <<>>
  /\ idle' = 0
  /\ at' = "journals"
  /\ UNCHANGED <<promptVars, screen_blanked, discard_next_key, paneVars,
                 inputVars, bootVars>>

\* Poll times out, or in front of a lit screen an event comes that is no key.
PollNothing ==
  /\ On
  /\ at = "poll"
  /\ screen_blanked => typed = <<>>
  /\ at' = "journals"
  /\ UNCHANGED <<promptVars, blankVars, paneVars, inputVars, bootVars>>

\* Mutant: only evdev lights the screen.
WakeByEvdevOnly ==
  /\ On
  /\ at = "poll"
  /\ screen_blanked
  /\ typed # <<>> /\ typed' = Tail(typed)
  /\ discard_next_key' = TRUE
  /\ at' = "journals"
  /\ UNCHANGED <<promptVars, screen_blanked, idle, paneVars, evdev, watched, bootVars>>

\* Any event of the terminal lights the screen: a key, or a change of its size.
WakeByTerminal ==
  /\ On
  /\ at = "poll"
  /\ screen_blanked
  /\ \/ UNCHANGED typed
     \/ typed # <<>> /\ typed' = Tail(typed)
  /\ screen_blanked' = FALSE
  /\ discard_next_key' = TRUE
  /\ idle' = 0
  /\ at' = "journals"
  /\ UNCHANGED <<promptVars, paneVars, evdev, watched, bootVars>>

ReadKey ==
  /\ On
  /\ at = "poll"
  /\ ~screen_blanked
  /\ typed # <<>>
  /\ idle' = 0
  /\ UNCHANGED <<screen_blanked, watched>>

DropKey ==
  /\ ReadKey
  /\ discard_next_key
  /\ discard_next_key' = FALSE
  /\ typed' = Tail(typed)
  /\ at' = "journals"
  /\ UNCHANGED <<promptVars, paneVars, evdev, bootVars>>

----------------------------------------------------------------------------
(***************************************************************************)
(* map_key and what the loop does with its answer.                         *)
(***************************************************************************)
Key ==
  /\ ReadKey
  /\ ~discard_next_key
  /\ UNCHANGED discard_next_key

Ordinary ==
  /\ Key
  /\ typed' = Tail(typed)
  /\ at' = "journals"
  /\ UNCHANGED evdev

InSsh    == ssh_input.open
InSledge == ~InSsh /\ sledgehammer_input # Closed
InMenu   == ~InSsh /\ ~InSledge /\ reconfigure_menu
InMain   == ~InSsh /\ ~InSledge /\ ~reconfigure_menu

PanesStopped == [p \in Pane |-> stop_journal(pane[p])]

\* Control-C anywhere, or q where it is enabled.
Quit ==
  /\ Key
  /\ typed' = Tail(typed)
  /\ at' = "exited"
  /\ pane' = PanesStopped
  /\ UNCHANGED <<promptVars, show_full_log, evdev, bootVars>>

\* Mutant: the last user is not the last.
NextUserUnchecked(s) == [s EXCEPT !.idx = @ + 1, !.name = ""]

NextUser(s) ==
  IF s.idx + 1 >= NumUsers THEN NoPrompt ELSE [s EXCEPT !.idx = @ + 1, !.name = ""]

\* A name is edited; Enter skips the user, refuses the name, or imports.
SshKey ==
  /\ Ordinary
  /\ InSsh
  /\ \/ ssh_input' = NoPrompt
     \/ \E name \in Name : ssh_input' = [ssh_input EXCEPT !.name = name]
     \/ ssh_input.name = "" /\ ssh_input' = NextUser(ssh_input)
     \/ ssh_input.name # "" /\ ssh_input' = [ssh_input EXCEPT !.name = ""]
     \/ ssh_input.name = "valid" /\ ssh_input' = NextUser(ssh_input)
  /\ UNCHANGED <<reconfigure_menu, sledgehammer_input, paneVars, bootVars>>

\* What one key or a wrong Enter can make of the confirmation.
Edited == [t \in Confirmation |->
  CASE t = ""             -> {"", "other"}
    [] t = "other"        -> Confirmation
    [] t = "SLEDGEHAMMER" -> {"SLEDGEHAMMER", "other"}]

ConfirmationKey ==
  /\ Ordinary
  /\ InSledge
  /\ sledgehammer_input' \in Edited[sledgehammer_input] \cup {Closed}
  /\ UNCHANGED <<reconfigure_menu, ssh_input, paneVars, bootVars>>

\* The executor's reboot may fail; if it does not, the bootloader decides.
Reboot ==
  /\ UNCHANGED armed
  /\ machine' \in {machine, IF armed THEN "wipe" ELSE "reboot"}

\* execute_sledgehammer.  A reboot that fails leaves GRUB armed.
execute_sledgehammer ==
  \/ WipeBoot = "tryboot" /\ machine' \in {machine, "wipe"} /\ UNCHANGED armed
  \/ WipeBoot = "grub" /\ armed' = TRUE /\ machine' \in {machine, "wipe"}
  \/ WipeBoot \in {"grub", "none"} /\ UNCHANGED bootVars

\* Mutant: any input is a confirmation.
IsConfirmation == sledgehammer_input # ""

Confirmed == sledgehammer_input = "SLEDGEHAMMER"

Sledgehammer ==
  /\ Ordinary
  /\ InSledge
  /\ Confirmed
  /\ sledgehammer_input' = Closed
  /\ execute_sledgehammer
  /\ UNCHANGED <<reconfigure_menu, ssh_input, paneVars>>

\* The installer runs inside, in network-only mode: it reads keys of its own
\* and can reboot the machine; evdev's events pile up meanwhile.
ReconfigureNetwork ==
  /\ Key
  /\ InMenu
  /\ reconfigure_menu' = FALSE
  /\ pane' = PanesStopped
  /\ \E n \in 1..Len(typed) : typed' = SubSeq(typed, n + 1, Len(typed))
  /\ \/ UNCHANGED evdev
     \/ watched /\ evdev' = evdev \cup {"key"}
  /\ Reboot
  /\ at' = "journals"
  /\ UNCHANGED <<ssh_input, sledgehammer_input, show_full_log>>

\* Mutant: the menu stays open under the prompt.
ReconfigureSshKeysNested ==
  /\ ssh_input' = [open |-> TRUE, idx |-> 0, name |-> ""]
  /\ UNCHANGED <<reconfigure_menu, sledgehammer_input>>

ReconfigureSshKeys ==
  /\ reconfigure_menu' = FALSE
  /\ ssh_input' = [open |-> TRUE, idx |-> 0, name |-> ""]
  /\ UNCHANGED sledgehammer_input

\* Esc, k (which stays in the menu where there are no users), !, other keys.
MenuKey ==
  /\ Ordinary
  /\ InMenu
  /\ \/ reconfigure_menu' = FALSE /\ UNCHANGED <<ssh_input, sledgehammer_input>>
     \/ NumUsers > 0 /\ ReconfigureSshKeys
     \/ sledgehammer_input' = "" /\ UNCHANGED <<reconfigure_menu, ssh_input>>
     \/ UNCHANGED promptVars
  /\ UNCHANGED <<paneVars, bootVars>>

active_journal == IF show_full_log THEN "journal" ELSE "xe_journal"

ScrollKey ==
  /\ Ordinary
  /\ InMain
  /\ \E p \in scrolled(pane[active_journal]) :
       pane' = [pane EXCEPT ![active_journal] = p]
  /\ UNCHANGED <<promptVars, show_full_log, bootVars>>

\* @, l, s, and keys without a meaning.
MainKey ==
  /\ Ordinary
  /\ InMain
  /\ \/ reconfigure_menu' = TRUE /\ UNCHANGED show_full_log
     \/ show_full_log' \in BOOLEAN /\ UNCHANGED reconfigure_menu
  /\ UNCHANGED <<ssh_input, sledgehammer_input, pane, bootVars>>

\* /bin/login takes the place of the getty, or cannot be executed.
Login ==
  /\ Ordinary
  /\ InMain
  /\ pane' = PanesStopped
  /\ machine' \in {machine, "login"}
  /\ UNCHANGED <<promptVars, show_full_log, armed>>

ShutDown ==
  /\ Ordinary
  /\ InMain
  /\ \/ Reboot
     \/ machine' \in {machine, "off"} /\ UNCHANGED armed
  /\ UNCHANGED <<promptVars, paneVars>>

HandleKey ==
  \/ Quit \/ SshKey \/ ConfirmationKey \/ Sledgehammer
  \/ ReconfigureNetwork \/ MenuKey
  \/ ScrollKey \/ MainKey \/ Login \/ ShutDown

Loop ==
  \/ ManageJournals \/ DrainEvdev
  \/ PollNothing \/ WakeByTerminal \/ DropKey \/ HandleKey

Next == Loop \/ PressKey \/ PressUnseen \/ TimePasses

Spec == Init /\ [][Next]_vars

\* The loop polls for a second at most, and the clock does not stand still.
FairSpec == Spec /\ WF_vars(Loop) /\ WF_vars(TimePasses)
----------------------------------------------------------------------------
\* The three modes are separate flags, set and cleared by different handlers,
\* and are still one at a time: the reset's confirmation belongs to the menu,
\* and the key-import prompt replaces it.
PromptsNested ==
  /\ InSsh => ~reconfigure_menu /\ sledgehammer_input = Closed
  /\ sledgehammer_input # Closed => reconfigure_menu

\* A pane with lines shows some: whatever is added, cut off and scrolled, in
\* whichever pane, no offset points in front of the buffer.
WindowShowsLines ==
  \A p \in Pane : pane[p].lines > 0 => bottom(pane[p]) >= 1

\* The view of a user who has scrolled back stays on its lines when another
\* is appended, until they are cut off.
AppendKeepsView ==
  \A p \in Pane :
    LET before == pane[p]
        after  == append_log_line(before)
        cut    == before.lines + 1 - after.lines
    IN  before.scroll > 0 =>
          \/ bottom(after) = bottom(before) - cut
          \/ bottom(after) = 1 /\ bottom(before) <= cut

\* The key that lights a dark screen does nothing else, whichever of the two
\* inputs sees it first: it is never handled as a command.
WakeKeyInert == [][HandleKey => Head(typed) # "wake"]_vars

\* Nothing is wiped without the whole word, typed in front of a lit screen,
\* and no letter of a name or of that word reboots the machine or turns it
\* off: the main screen or the nested installer does.
Deliberate ==
  [][/\ ~armed /\ (armed' \/ (machine # "wipe" /\ machine' = "wipe")) =>
          /\ InSledge /\ sledgehammer_input = "SLEDGEHAMMER"
          /\ ~screen_blanked /\ ~discard_next_key
     /\ machine' # machine /\ machine' \in {"reboot", "off"} =>
          ~InSsh /\ ~InSledge]_vars

\* A key lights a dark screen.
WakesUp == screen_blanked /\ typed # <<>> ~> ~screen_blanked

\* A console left alone goes dark.
GoesDark ==
  <>[](typed = <<>> /\ evdev = {}) => <>(screen_blanked \/ ~On)
=============================================================================
