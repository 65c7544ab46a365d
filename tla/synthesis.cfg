SPECIFICATION SynthesisFairSpec
CONSTANTS
  A = A
  B = B
  Configs = {A, B}
  Scenes <- MCScenes
INVARIANTS SummariesSound BudgetsKept
PROPERTIES PermittedAndCurrent JobsEnd
CHECK_DEADLOCK FALSE
