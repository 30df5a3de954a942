CONSTANTS
  Menu <- MCMenu
  MaxCommands = 4
  Texts <- MCTexts
  Language <- MCLanguage
SPECIFICATION Spec
INVARIANTS
  StoresAgree FoundByID PagesCoverAll GroupsPartition UnwoundIsRegrouped ListsStayCapped
PROPERTIES
  RetryChangesNothing DeleteIsExact
CHECK_DEADLOCK FALSE
