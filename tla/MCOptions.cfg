CONSTANTS
  Opts <- MCOpts
  Argvs <- MCArgvs
  Settings = {"full", "array", "batch", "always-interactive", "bison-locations", "c++", "meta-ecs", "lex-compat", "reject", "yymore"}
  MaxLines = 2
  unspecified = unspecified
SPECIFICATION Spec
INVARIANTS
  OptionsTypeOK
  ArgvReadOnce
  OptionsMeant
  ChoicesFit
PROPERTIES
  Ends
