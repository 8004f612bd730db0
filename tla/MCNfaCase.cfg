CONSTANTS
  csize = 4
  NL = 3
  Chars = {}
  Cases <- MCCases
  Orders = {"right"}
  Ccls <- MCCcls
  CclOps <- MCCclOps
  Dots = {}
  Repeats <- MCRepeats
  Exclusive <- MCExclusive
  Lists = {{}}
  Bols = {FALSE}
  lex_compat = FALSE
  YY_TRAILING_HEAD_MASK = 100
  Budgets <- CaseBudgets
  MaxWord = 3
SPECIFICATION Spec
INVARIANT
  MachinesMatch
