CONSTANTS
  csize = 4
  NL = 3
  Chars = {}
  Cases = {}
  Orders = {"left"}
  Ccls <- NulCcls
  CclOps <- MCCclOps
  Dots = {}
  Repeats <- MCRepeats
  Exclusive <- MCExclusive
  Lists = {{}}
  Bols = {FALSE}
  lex_compat = FALSE
  YY_TRAILING_HEAD_MASK = 100
  Budgets <- NulBudgets
  MaxWord = 3
  useecs = FALSE
  Rejects = {FALSE}
SPECIFICATION DfaSpec
INVARIANT
  Scans
