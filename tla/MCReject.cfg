CONSTANTS
  Alphabet = {"a", "b"}
  RuleSets <- MCRuleSets
  Texts <- MCTexts
SPECIFICATION Spec
INVARIANTS
  RejectTypeOK
  NextBest
  TrailingContextCut
PROPERTIES
  ScansAll
