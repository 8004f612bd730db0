CONSTANTS
  csize = 4
  NL = 3
  Chars = {3}
  Cases <- MCCases
  Orders = {"left"}
  Ccls <- MCCcls
  CclOps <- MCCclOps
  Dots = {}
  Repeats <- MCRepeats
  Exclusive <- MCExclusive
  Lists = {{}}
  Bols = {FALSE}
  lex_compat = FALSE
  YY_TRAILING_HEAD_MASK = 100
  Budgets <- MCBudgets
  MaxWord = 3
SPECIFICATION Spec
INVARIANTS
  TypeOK
  SelfContained
  MachinesMatch
  RulesMatch
  CutsAtHead
  NewlinesNoticed
