CONSTANTS
  csize = 4
  NL = 3
  Chars = {1}
  Cases = {}
  Orders = {"left"}
  Ccls <- MCCcls
  CclOps <- MCCclOps
  Dots = {FALSE}
  Repeats <- MCRepeats
  Exclusive <- MCExclusive
  Lists = {{}, {2}}
  Bols = {TRUE, FALSE}
  lex_compat = FALSE
  YY_TRAILING_HEAD_MASK = 100
  Budgets <- MCBudgets
  MaxWord = 3
  useecs = TRUE
  Rejects = {TRUE, FALSE}
SPECIFICATION DfaSpec
INVARIANTS
  DfaTypeOK
  Scans
  DuplicatesFound
  EobApart
  BackingUpKnown
