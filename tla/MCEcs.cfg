CONSTANTS
  csize = 5
  Tables <- MCTables
  Singles <- MCSingles
  MaxCalls = 3
SPECIFICATION Spec
INVARIANTS
  TypeOK
  ClassesDecideTables
  SinglesStandAlone
  NoStaleFlag
  Coarsest
