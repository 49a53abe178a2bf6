SPECIFICATION FairSpec
CONSTANTS
  Selections = {plain, styled}
  Styled = {styled}
  Plain = plain
  MaxCalls = 4
  MaxVersion = 2
  MaxReports = 2
CHECK_DEADLOCK FALSE
INVARIANTS RuntimeAccounted LorasFresh AnswersHonest
PROPERTIES ImplementsFairBackend
