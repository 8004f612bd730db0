CONSTANTS
  numecs = 4
  lastdfa = 5
  EobState = 2
  Rows <- MCRows
  Schemes = {"compressed", "full", "fast"}
  PROTO_SIZE_PERCENTAGE = 30
  CHECK_COM_PERCENTAGE = 50
  FIRST_MATCH_DIFF_PERCENTAGE = 10
  ACCEPTABLE_DIFF_PERCENTAGE = 50
  TEMPLATE_SAME_PERCENTAGE = 60
  NEW_PROTO_DIFF_PERCENTAGE = 20
  INTERIOR_FIT_PERCENTAGE = 50
  MSP = 4
  PROT_SAVE_SIZE = 100
  ONE_STACK_SIZE = 2
  MAX_XTIONS_FULL_INTERIOR_FIT = 2
SPECIFICATION Spec
INVARIANTS
  TblTypeOK
  TablesDecode
  ReadsStayInside
  ProtosAreCurrent
PROPERTIES
  NothingReclaimed
