SPECIFICATION Spec
CONSTANTS
  None = None
  MaxVersions = 2
  Budgets <- MCBudgets
INVARIANTS PagesTypeOK ShownBelongsToSelection ReadYourWrites AppliedOnce RefusalsKnown
PROPERTIES ClosingHeld
VIEW MCView
CHECK_DEADLOCK FALSE
