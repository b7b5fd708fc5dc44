----------------------------- MODULE GettyProofs -----------------------------
(***************************************************************************)
(* The getty console, for any number of users, any blanking timeout, any   *)
(* length of the journals and any number of keys waiting.                  *)
(***************************************************************************)
EXTENDS Getty, SequenceTheorems, TLAPS

USE DEF promptVars, blankVars, paneVars, inputVars, bootVars, On, Ordinary,
        Key, ReadKey, InSsh, InSledge, InMenu, InMain

----------------------------------------------------------------------------
\* A pane is well typed, and its offset stays within its lines.
PaneOK(p) ==
  /\ p \in PaneState
  /\ p.scroll <= max_scroll(p.lines)

USE PaneAssumption

LEMMA AppendOK == ASSUME NEW p, PaneOK(p) PROVE PaneOK(append_log_line(p))
<1>1. p.lines \in Nat /\ p.scroll \in Nat /\ p.child \in BOOLEAN
  BY DEF PaneOK, PaneState
<1> QED
  BY <1>1 DEF PaneOK, PaneState, append_log_line, Least, max_scroll

LEMMA StartOK ==
  ASSUME NEW p, PaneOK(p), NEW q \in start_journal(p) PROVE PaneOK(q)
<1>1. p.lines \in Nat /\ p.scroll \in Nat /\ p.child \in BOOLEAN
        /\ p.scroll <= max_scroll(p.lines)
  BY DEF PaneOK, PaneState
<1>2. CASE q = [p EXCEPT !.child = TRUE]
  BY <1>2 DEF PaneOK, PaneState
<1>3. CASE q = [p EXCEPT !.lines = @ + 1]
  <2>1. q \in PaneState /\ q.lines = p.lines + 1 /\ q.scroll = p.scroll
    BY <1>3 DEF PaneOK, PaneState
  <2> QED
    BY <1>1, <2>1 DEF PaneOK, max_scroll
<1> QED
  BY <1>2, <1>3 DEF start_journal

LEMMA StopOK == ASSUME NEW p, PaneOK(p) PROVE PaneOK(stop_journal(p))
BY DEF PaneOK, PaneState, stop_journal

LEMMA ManageOK ==
  ASSUME NEW p, PaneOK(p), NEW q \in manage_journal(p) PROVE PaneOK(q)
<1>1. PICK r \in IF p.child THEN {p} ELSE start_journal(p) :
        q \in drain_journal_lines(r)
  BY DEF manage_journal
<1>2. PaneOK(r)
  BY <1>1, StartOK
<1>3. PaneOK(append_log_line(r)) /\ PaneOK(append_log_line(append_log_line(r)))
  BY <1>2, AppendOK
<1> QED
  BY <1>1, <1>2, <1>3 DEF drain_journal_lines

LEMMA ScrolledOK ==
  ASSUME NEW p, PaneOK(p), NEW q \in scrolled(p) PROVE PaneOK(q)
<1> USE DEF PaneOK, PaneState, max_scroll, Least
<1>1. ASSUME NEW n \in Nat PROVE PaneOK(scroll_back(p, n)) /\ PaneOK(scroll_forward(p, n))
  BY <1>1 DEF scroll_back, scroll_forward
<1>2. PaneOK(scroll_to_tail(p)) /\ PaneOK(scroll_to_top(p))
  BY DEF scroll_to_tail, scroll_to_top
<1> HIDE DEF PaneOK
<1> QED
  BY <1>1, <1>2 DEF scrolled

PanesOK ==
  /\ pane \in [Pane -> PaneState]
  /\ \A p \in Pane : PaneOK(pane[p])

LEMMA PanesStep == PanesOK /\ [Next]_vars => PanesOK'
<1> SUFFICES ASSUME PanesOK, [Next]_vars PROVE PanesOK'
    OBVIOUS
<1> USE DEF PanesOK, Pane
<1>1. CASE UNCHANGED pane
  BY <1>1
<1>2. CASE ManageJournals
  <2>1. PICK j \in manage_journal(pane["journal"]),
             x \in manage_journal(pane["xe_journal"]) :
          pane' = [journal |-> j, xe_journal |-> x]
    BY <1>2 DEF ManageJournals
  <2>2. PaneOK(j) /\ PaneOK(x)
    BY ManageOK
  <2> QED
    BY <2>1, <2>2 DEF PaneOK
<1>3. CASE pane' = PanesStopped
  BY <1>3, StopOK DEF PanesStopped, PaneOK
<1>4. CASE ScrollKey
  <2>1. PICK q \in scrolled(pane[active_journal]) :
          pane' = [pane EXCEPT ![active_journal] = q]
    BY <1>4 DEF ScrollKey
  <2>2. active_journal \in Pane
    BY DEF active_journal
  <2>3. PaneOK(q)
    BY <2>2, ScrolledOK
  <2> QED
    BY <2>1, <2>2, <2>3 DEF PaneOK
<1> QED
  BY <1>1, <1>2, <1>3, <1>4
  DEF Next, Loop, HandleKey, PressKey, PressUnseen, TimePasses, DrainEvdev,
      PollNothing, WakeByTerminal, DropKey, Quit, SshKey, ConfirmationKey,
      Sledgehammer, ReconfigureNetwork, MenuKey, MainKey, Login, ShutDown, vars

LEMMA PanesInvariant == Spec => []PanesOK
<1>1. Init => PanesOK
  BY DEF Init, PanesOK, PaneOK, PaneState, EmptyPane, max_scroll, Pane
<1> QED
  BY <1>1, PanesStep, PTL DEF Spec

\* A pane with lines always shows some, however the journals grow, are cut
\* off and scrolled: no view lies in front of its buffer.
THEOREM WindowsShowLines == Spec => []WindowShowsLines
<1>1. PanesOK => WindowShowsLines
  BY DEF PanesOK, PaneOK, PaneState, WindowShowsLines, bottom, max_scroll
<1> QED
  BY <1>1, PanesInvariant, PTL

\* A new line never moves the view of a user who has scrolled back, in a
\* journal of any length, until the lines in view are cut off.
THEOREM AppendsKeepView == Spec => []AppendKeepsView
<1>1. PanesOK => AppendKeepsView
  BY DEF PanesOK, PaneOK, PaneState, AppendKeepsView, append_log_line, bottom,
         max_scroll, Least
<1> QED
  BY <1>1, PanesInvariant, PTL

----------------------------------------------------------------------------
LEMMA PromptsStep == PromptsNested /\ [Next]_vars => PromptsNested'
<1> SUFFICES ASSUME PromptsNested, [Next]_vars PROVE PromptsNested'
    OBVIOUS
<1> USE DEF PromptsNested
<1>1. CASE UNCHANGED promptVars
  BY <1>1
<1>2. CASE SshKey
  BY <1>2 DEF SshKey
<1>3. CASE ConfirmationKey
  BY <1>3 DEF ConfirmationKey
<1>4. CASE Sledgehammer
  BY <1>4 DEF Sledgehammer
<1>5. CASE ReconfigureNetwork
  BY <1>5 DEF ReconfigureNetwork
<1>6. CASE MenuKey
  BY <1>6 DEF MenuKey, ReconfigureSshKeys
<1>7. CASE MainKey
  BY <1>7 DEF MainKey
<1> QED
  BY <1>1, <1>2, <1>3, <1>4, <1>5, <1>6, <1>7
  DEF Next, Loop, HandleKey, PressKey, PressUnseen, TimePasses, ManageJournals,
      DrainEvdev, PollNothing, WakeByTerminal, DropKey, Quit, ScrollKey, Login,
      ShutDown, vars

\* The prompts of the getty never overlap: the confirmation of the reset is
\* open only over the menu, and the key import only without either.
THEOREM PromptsNest == Spec => []PromptsNested
<1>1. Init => PromptsNested
  BY DEF Init, PromptsNested, NoPrompt
<1> QED
  BY <1>1, PromptsStep, PTL DEF Spec

\* No machine is wiped without the whole word in the confirmation, and no
\* letter typed into a prompt reboots it or turns it off.
THEOREM ActsDeliberately == Spec => Deliberate
<1> DEFINE Step ==
      /\ ~armed /\ (armed' \/ (machine # "wipe" /\ machine' = "wipe")) =>
           /\ InSledge /\ sledgehammer_input = "SLEDGEHAMMER"
           /\ ~screen_blanked /\ ~discard_next_key
      /\ machine' # machine /\ machine' \in {"reboot", "off"} =>
           ~InSsh /\ ~InSledge
<1>1. [Next]_vars => Step
  <2> SUFFICES ASSUME [Next]_vars PROVE Step
      OBVIOUS
  <2>1. CASE UNCHANGED bootVars
    BY <2>1
  <2>2. CASE Sledgehammer
    BY <2>2 DEF Sledgehammer, execute_sledgehammer, Confirmed
  <2>3. CASE ReconfigureNetwork
    BY <2>3 DEF ReconfigureNetwork, Reboot
  <2>4. CASE Login
    BY <2>4 DEF Login
  <2>5. CASE ShutDown
    BY <2>5 DEF ShutDown, Reboot
  <2> QED
    BY <2>1, <2>2, <2>3, <2>4, <2>5
    DEF Next, Loop, HandleKey, PressKey, PressUnseen, TimePasses, ManageJournals,
        DrainEvdev, PollNothing, WakeByTerminal, DropKey, Quit, SshKey,
        ConfirmationKey, MenuKey, ScrollKey, MainKey, vars
<1> QED
  BY <1>1, PTL DEF Spec, Deliberate

----------------------------------------------------------------------------
\* The key that lights the screen stands first in the terminal.  Until it is
\* read, either the screen is dark and evdev, if it watches the keyboard,
\* still holds the same key; or the screen is lit and the key marked for
\* discarding; or the loop is about to read the terminal in the dark.
Waking == typed # <<>> /\ typed[1] = "wake"

WakeMarked ==
  /\ typed \in Seq({"wake", "other"})
  /\ \A n \in 1..Len(typed) : typed[n] = "wake" => n = 1
  /\ at \in {"journals", "evdev", "poll", "exited"}
  /\ watched \/ evdev = {}
  /\ at \in {"journals", "evdev"} /\ screen_blanked /\ typed # <<>> /\ watched =>
       "key" \in evdev
  /\ Waking => screen_blanked \/ discard_next_key

LEMMA WakeStep == WakeMarked /\ [Next]_vars => WakeMarked'
<1> SUFFICES ASSUME WakeMarked, [Next]_vars PROVE WakeMarked'
    OBVIOUS
<1> USE DEF WakeMarked, Waking
<1>1. CASE PressKey
  BY <1>1 DEF PressKey, Mark
<1>2. CASE PressUnseen \/ TimePasses
  BY <1>2 DEF PressUnseen, TimePasses
<1>3. CASE ManageJournals
  BY <1>3 DEF ManageJournals
<1>4. CASE DrainEvdev
  <2>1. CASE KeyboardActive
    BY <1>4, <2>1 DEF DrainEvdev, KeyboardActive
  <2>2. CASE KeyboardQuiet
    BY <1>4, <2>2 DEF DrainEvdev, KeyboardQuiet, should_blank_screen
  <2> QED
    BY <1>4, <2>1, <2>2 DEF DrainEvdev
<1>5. CASE PollNothing
  BY <1>5 DEF PollNothing
<1>6. ASSUME typed # <<>>, typed' = Tail(typed), ~screen_blanked',
             UNCHANGED <<evdev, watched>>, at' \in {"journals", "exited"}
      PROVE  WakeMarked'
  <2>1. /\ typed' \in Seq({"wake", "other"})
        /\ Len(typed') = Len(typed) - 1
        /\ \A n \in 1..Len(typed') : typed'[n] = typed[n + 1]
    BY <1>6, HeadTailProperties, Zenon
  <2>2. \A n \in 1..Len(typed') : typed'[n] # "wake"
    BY <2>1
  <2>3. ~Waking'
    BY <2>1, <2>2
  <2> QED
    BY <1>6, <2>1, <2>2, <2>3
<1>7. CASE WakeByTerminal
  <2>1. CASE UNCHANGED typed
    BY <1>7, <2>1 DEF WakeByTerminal
  <2> QED
    BY <1>6, <1>7, <2>1 DEF WakeByTerminal
<1>8. CASE DropKey
  BY <1>6, <1>8 DEF DropKey
<1>9. CASE HandleKey
  <2>1. CASE ReconfigureNetwork
    <3>1. PICK n \in 1..Len(typed) : typed' = SubSeq(typed, n + 1, Len(typed))
      BY <2>1 DEF ReconfigureNetwork
    <3>2. /\ typed' \in Seq({"wake", "other"})
          /\ Len(typed') = IF n + 1 <= Len(typed) THEN Len(typed) - n ELSE 0
          /\ \A k \in 1..(Len(typed) - n) : typed'[k] = typed[n + k]
      <4>1. n \in Nat /\ Len(typed) \in Nat /\ n >= 1
        OBVIOUS
      <4>2. \A i \in (n + 1)..Len(typed) : typed[i] \in {"wake", "other"}
        BY <4>1
      <4> HIDE DEF WakeMarked
      <4> QED
        BY <3>1, <4>1, <4>2, SubSeqProperties
    <3>3. \A k \in 1..Len(typed') : typed'[k] # "wake"
      BY <3>2
    <3>4. ~Waking'
      BY <3>2, <3>3
    <3> QED
      BY <2>1, <3>2, <3>3, <3>4 DEF ReconfigureNetwork
  <2>2. CASE ~ReconfigureNetwork
    <3>1. typed # <<>> /\ typed' = Tail(typed) /\ ~screen_blanked'
            /\ UNCHANGED <<evdev, watched>> /\ at' \in {"journals", "exited"}
      <4>1. CASE Quit
        BY <4>1 DEF Quit
      <4>2. CASE Ordinary
        BY <4>2
      <4>3. Quit \/ Ordinary
        BY <1>9, <2>2
        DEF HandleKey, SshKey, ConfirmationKey, Sledgehammer, MenuKey,
            ScrollKey, MainKey, Login, ShutDown
      <4> QED
        BY <4>1, <4>2, <4>3
    <3> QED
      BY <1>6, <3>1
  <2> QED
    BY <2>1, <2>2
<1>10. CASE UNCHANGED vars
  BY <1>10 DEF vars
<1> QED
  BY <1>1, <1>2, <1>3, <1>4, <1>5, <1>7, <1>8, <1>9, <1>10 DEF Next, Loop

LEMMA WakeInvariant == Spec => []WakeMarked
<1>1. Init => WakeMarked
  BY DEF Init, WakeMarked, Waking
<1> QED
  BY <1>1, WakeStep, PTL DEF Spec

\* The key that lights a dark screen is never handled as a command, in
\* whichever order evdev and the terminal deliver it.
THEOREM WakeKeysInert == Spec => WakeKeyInert
<1>1. WakeMarked /\ [Next]_vars => [HandleKey => Head(typed) # "wake"]_vars
  <2> SUFFICES ASSUME WakeMarked, HandleKey PROVE Head(typed) # "wake"
      OBVIOUS
  <2>1. ~screen_blanked /\ ~discard_next_key /\ typed # <<>>
    BY DEF HandleKey, Quit, SshKey, ConfirmationKey, Sledgehammer,
           ReconfigureNetwork, MenuKey, ScrollKey, MainKey, Login, ShutDown
  <2>2. Head(typed) = typed[1]
    BY <2>1 DEF WakeMarked
  <2> QED
    BY <2>1, <2>2 DEF WakeMarked, Waking
<1> QED
  BY <1>1, WakeInvariant, PTL DEF Spec, WakeKeyInert

----------------------------------------------------------------------------
UserPrompt == [open : {TRUE}, idx : 0..(NumUsers - 1), name : Name]

SshType == ssh_input \in {NoPrompt} \cup UserPrompt

LEMMA SshTypeStep == SshType /\ [Next]_vars => SshType'
<1> SUFFICES ASSUME SshType, [Next]_vars PROVE SshType'
    OBVIOUS
<1> USE DEF SshType
<1>1. CASE UNCHANGED ssh_input
  BY <1>1
<1>2. CASE SshKey
  <2>1. ssh_input \in UserPrompt
    <3>1. ~NoPrompt.open
      BY DEF NoPrompt
    <3>2. ssh_input.open
      BY <1>2 DEF SshKey
    <3> QED
      BY <3>1, <3>2
  <2>2. \A name \in Name : [ssh_input EXCEPT !.name = name] \in UserPrompt
    BY <2>1 DEF UserPrompt
  <2>3. NextUser(ssh_input) \in {NoPrompt} \cup UserPrompt
    <3>1. CASE ssh_input.idx + 1 >= NumUsers
      BY <3>1 DEF NextUser
    <3>2. CASE ~(ssh_input.idx + 1 >= NumUsers)
      <4> DEFINE next == [ssh_input EXCEPT !.idx = @ + 1, !.name = ""]
      <4>1. NextUser(ssh_input) = next
        BY <3>2 DEF NextUser
      <4>2. ssh_input.idx + 1 \in 0..(NumUsers - 1)
        BY <2>1, <3>2, GettyAssumption DEF UserPrompt, GettyAssumption
      <4>3. next \in UserPrompt
        BY <2>1, <4>2, Zenon DEF UserPrompt, Name
      <4> QED
        BY <4>1, <4>3
    <3> QED
      BY <3>1, <3>2
  <2> QED
    BY <1>2, <2>1, <2>2, <2>3 DEF SshKey, Name
<1>3. CASE MenuKey
  <2>1. NumUsers > 0 => [open |-> TRUE, idx |-> 0, name |-> ""] \in UserPrompt
    <3>1. NumUsers > 0 => 0 \in 0..(NumUsers - 1)
      BY GettyAssumption DEF GettyAssumption
    <3> QED
      BY <3>1, Zenon DEF UserPrompt, Name
  <2> QED
    BY <1>3, <2>1 DEF MenuKey, ReconfigureSshKeys
<1> QED
  BY <1>1, <1>2, <1>3
  DEF Next, Loop, HandleKey, PressKey, PressUnseen, TimePasses, ManageJournals,
      DrainEvdev, PollNothing, WakeByTerminal, DropKey, Quit, ConfirmationKey,
      Sledgehammer, ReconfigureNetwork, ScrollKey, MainKey, Login, ShutDown, vars

IdleType == idle \in 0..BlankTimeout

LEMMA IdleTypeStep == IdleType /\ [Next]_vars => IdleType'
<1> SUFFICES ASSUME IdleType, [Next]_vars PROVE IdleType'
    OBVIOUS
<1> USE GettyAssumption DEF IdleType, GettyAssumption
<1>1. CASE UNCHANGED idle
  BY <1>1
<1>2. CASE TimePasses
  BY <1>2 DEF TimePasses
<1>3. CASE idle' = 0
  BY <1>3
<1> QED
  BY <1>1, <1>2, <1>3
  DEF Next, Loop, HandleKey, PressKey, PressUnseen, ManageJournals, DrainEvdev,
      KeyboardActive, KeyboardQuiet, PollNothing, WakeByTerminal, DropKey, Quit,
      SshKey, ConfirmationKey, Sledgehammer, ReconfigureNetwork, MenuKey,
      ScrollKey, MainKey, Login, ShutDown, vars

FlagTypes ==
  /\ reconfigure_menu \in BOOLEAN
  /\ sledgehammer_input \in Confirmation \cup {Closed}
  /\ show_full_log \in BOOLEAN
  /\ screen_blanked \in BOOLEAN
  /\ discard_next_key \in BOOLEAN
  /\ evdev \in SUBSET {"modifier", "key"}
  /\ watched \in BOOLEAN
  /\ armed \in BOOLEAN
  /\ machine \in {"running", "login", "reboot", "off", "wipe"}

LEMMA FlagTypesStep == FlagTypes /\ [Next]_vars => FlagTypes'
<1> SUFFICES ASSUME FlagTypes, [Next]_vars PROVE FlagTypes'
    OBVIOUS
<1> USE DEF FlagTypes
<1>1. CASE PressKey \/ PressUnseen \/ TimePasses
  BY <1>1 DEF PressKey, PressUnseen, TimePasses
<1>2. CASE ManageJournals \/ PollNothing \/ WakeByTerminal \/ DropKey
  BY <1>2 DEF ManageJournals, PollNothing, WakeByTerminal, DropKey
<1>3. CASE DrainEvdev
  <2>1. CASE KeyboardActive
    <3>1. discard_next_key' = ("key" \in evdev) \/ UNCHANGED discard_next_key
      BY <2>1 DEF KeyboardActive
    <3>2. discard_next_key' \in BOOLEAN
      <4>1. ("key" \in evdev) = TRUE \/ ("key" \in evdev) = FALSE
        OBVIOUS
      <4> QED
        BY <3>1, <4>1
    <3>3. screen_blanked' \in BOOLEAN /\ evdev' = {}
      BY <2>1 DEF KeyboardActive
    <3> QED
      BY <1>3, <2>1, <3>2, <3>3 DEF DrainEvdev, KeyboardActive
  <2>2. CASE KeyboardQuiet
    BY <1>3, <2>2 DEF DrainEvdev, KeyboardQuiet
  <2> QED
    BY <1>3, <2>1, <2>2 DEF DrainEvdev
<1>4. CASE Quit \/ SshKey
  BY <1>4 DEF Quit, SshKey
<1>5. CASE ConfirmationKey
  BY <1>5 DEF ConfirmationKey, Edited, Confirmation
<1>6. CASE Sledgehammer
  BY <1>6 DEF Sledgehammer, execute_sledgehammer
<1>7. CASE ReconfigureNetwork
  BY <1>7 DEF ReconfigureNetwork, Reboot
<1>8. CASE MenuKey \/ ScrollKey \/ MainKey
  BY <1>8 DEF MenuKey, ReconfigureSshKeys, ScrollKey, MainKey, Confirmation
<1>9. CASE Login \/ ShutDown
  BY <1>9 DEF Login, ShutDown, Reboot
<1>10. CASE UNCHANGED vars
  BY <1>10 DEF vars
<1> QED
  BY <1>1, <1>2, <1>3, <1>4, <1>5, <1>6, <1>7, <1>8, <1>9, <1>10
  DEF Next, Loop, HandleKey

\* Every reachable state of the console is well typed: in particular the
\* key-import prompt always names one of the users there are.
THEOREM GettyTypes == Spec => []TypeOK
<1>1. Init => SshType
  BY DEF Init, SshType
<1>2. Init => IdleType
  BY GettyAssumption DEF GettyAssumption, Init, IdleType
<1>3. Init => FlagTypes
  BY DEF Init, FlagTypes
<1>4. PanesOK /\ WakeMarked /\ SshType /\ IdleType /\ FlagTypes => TypeOK
  BY DEF TypeOK, PanesOK, WakeMarked, SshType, UserPrompt, IdleType, FlagTypes
<1> QED
  BY <1>1, <1>2, <1>3, <1>4, SshTypeStep, IdleTypeStep, FlagTypesStep,
     PanesInvariant, WakeInvariant, PTL DEF Spec
=============================================================================
