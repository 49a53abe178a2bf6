SPECIFICATION ExecSpec
CONSTANTS
  plain = plain
  styled = styled
  Selections = {plain, styled}
  Styled = {styled}
  Plain = plain
  MaxCalls = 3
  MaxVersion = 0
  MaxReports = 4
  Workflow <- MCWorkflow
CHECK_DEADLOCK FALSE
INVARIANTS RuntimeSettled
PROPERTIES ImplementsManager ImplementsOwner
