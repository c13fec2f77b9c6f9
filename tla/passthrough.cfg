SPECIFICATION Spec
CONSTANTS
  None = None
  Instructions <- MCInstructions
  Translations <- MCTranslations
  Base <- MCBase
  Reset <- MCReset
  Gaps <- MCGaps
  MaxInstructions = 3
INVARIANTS
  ShadowIsReal
PROPERTIES
  Emulates
CHECK_DEADLOCK FALSE
