CONSTANTS
  MaxSettings = 2
  Capacity = 2
  Shortcomings <- MCShortcomings
  Steps <- MCSteps
  Typed <- MCTyped
  None = None
SPECIFICATION MCSpec
INVARIANTS TypeOK ScalesOfItsOwn ScreenAgrees UntouchedHarmless
PROPERTIES SpinnerSteps
