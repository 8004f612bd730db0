CONSTANTS
  Rules <- MCRules
  Delta <- MCDelta
  Accept <- MCAccept
  Start = 1
  NlRules = {2, 3}
  DefaultRule = 4
  NUL = 0
  NL = 2
  Pushable = {1, 2}
  Inputs <- MCInputs
  Modes = {"compressed"}
  NulTables = {"compressed"}
  Sources = {"file", "memory"}
  YY_BUF_SIZE = 2
  YY_READ_BUF_SIZE = 2
  Ops = {}
  MaxOps = {}
  MaxEofs = 1
  MoreAtEof = FALSE
  InputAtEof = FALSE
  MaxLen = 4
SPECIFICATION Spec
PROPERTY
  LexerSpec
