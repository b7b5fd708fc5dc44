CONSTANTS
  JOURNAL_MAX_LINES = 3
  JOURNAL_PAGE_STEP = 2
  LINE_BOUND = 3
  NumUsers = 2
  WipeBoot = "grub"
  BlankTimeout = 1
  MAX_TYPED = 2
SPECIFICATION FairSpec
CHECK_DEADLOCK FALSE
INVARIANTS
  TypeOK
  PromptsNested
  WindowShowsLines
  AppendKeepsView
PROPERTIES
  WakeKeyInert
  Deliberate
  WakesUp
  GoesDark
