----------------------------- MODULE JournalPane -----------------------------
(***************************************************************************)
(* A journal pane of the getty: a buffer of lines, how far the user has    *)
(* scrolled back from its tail, and the journalctl that feeds it.  The     *)
(* pane shows the lines that end `scroll' lines before the last; which     *)
(* lines they are follows from their number and is left out.               *)
(***************************************************************************)
EXTENDS Integers

CONSTANTS
  JOURNAL_MAX_LINES,     \* journal_max_lines, 200
  JOURNAL_PAGE_STEP,     \* 10
  LINE_BOUND             \* bound: lines a journalctl that fails to start adds

ASSUME PaneAssumption ==
  /\ JOURNAL_MAX_LINES \in Nat \ {0}
  /\ JOURNAL_PAGE_STEP \in Nat \ {0}

PaneState == [lines : Nat, scroll : Nat, child : BOOLEAN]

EmptyPane == [lines |-> 0, scroll |-> 0, child |-> FALSE]

Least(a, b) == IF a < b THEN a ELSE b

max_scroll(lines) == IF lines = 0 THEN 0 ELSE lines - 1

\* Mutant: the scroll offset is clamped before the buffer is trimmed.
append_log_line_late(p) ==
  [lines  |-> Least(p.lines + 1, JOURNAL_MAX_LINES),
   scroll |-> IF p.scroll > 0 THEN Least(p.scroll + 1, max_scroll(p.lines + 1)) ELSE 0,
   child  |-> p.child]

\* Mutant: a new line moves the view.
append_log_line_moving(p) ==
  LET lines == Least(p.lines + 1, JOURNAL_MAX_LINES)
  IN  [lines |-> lines, scroll |-> Least(p.scroll, max_scroll(lines)), child |-> p.child]

\* A line is added; a view that is scrolled back stays on its lines; what is
\* over the limit is cut off at the front, and the view with it.
append_log_line(p) ==
  LET lines == Least(p.lines + 1, JOURNAL_MAX_LINES)
  IN  [lines  |-> lines,
       scroll |-> Least(IF p.scroll > 0 THEN p.scroll + 1 ELSE 0, max_scroll(lines)),
       child  |-> p.child]

\* start_journal: a journalctl that cannot be started leaves a line, past any
\* limit.
start_journal(p) ==
  {[p EXCEPT !.child = TRUE]}
    \cup (IF p.lines < LINE_BOUND THEN {[p EXCEPT !.lines = @ + 1]} ELSE {})

stop_journal(p) == [p EXCEPT !.child = FALSE]

\* drain_journal_lines, where at most two lines have come since the last time.
drain_journal_lines(p) ==
  IF p.child
  THEN {p, append_log_line(p), append_log_line(append_log_line(p))}
  ELSE {p}

manage_journal(p) ==
  UNION {drain_journal_lines(q) : q \in IF p.child THEN {p} ELSE start_journal(p)}

scroll_back(p, n) == [p EXCEPT !.scroll = Least(@ + n, max_scroll(p.lines))]

scroll_forward(p, n) == [p EXCEPT !.scroll = IF @ < n THEN 0 ELSE @ - n]

scroll_to_tail(p) == [p EXCEPT !.scroll = 0]

scroll_to_top(p) == [p EXCEPT !.scroll = max_scroll(p.lines)]

\* What the arrow and page keys, Home and End do.
scrolled(p) ==
  {scroll_back(p, JOURNAL_PAGE_STEP), scroll_forward(p, JOURNAL_PAGE_STEP),
   scroll_back(p, 1), scroll_forward(p, 1), scroll_to_tail(p), scroll_to_top(p)}

\* The last line in view, counted from the front of the buffer.
bottom(p) == p.lines - p.scroll
=============================================================================
